---- MODULE Spec2Model ----
(***************************************************************************)
(* Model of the asset-synchronisation core of the GBF wiki image uploader: *)
(* the fetcher (get_image / download_single), the duplicate resolver       *)
(* (check_image), the redirect maintenance (check_redirect,                *)
(* check_double_redirect, investigate_backlinks), the task derivation and  *)
(* processing loop of check_sp_asset, and the upload lock of the command   *)
(* handlers.  Names, titles, page texts and URLs are strings, and the      *)
(* string conversions of the code are computed character by character.     *)
(***************************************************************************)
EXTENDS Integers, Sequences, FiniteSets, TLC

VARIABLES
    pages,      \* the wiki: title -> [exists, text, rev, body]
    archive,    \* archived file copies kept by the wiki: set of [title, body]
    nextRev,    \* the wiki's next revision id
    cache,      \* GBFDB table "pages": name -> [text, rev]
    cdn,        \* the CDN: url -> sequence of answers [status, body]
    last,       \* record of the handler call that ran last
    prev,       \* record of the handler call before it
    calls,      \* number of handler calls made so far (SpecOps)
    fetch,      \* SpecFetch: the scripted answers and the result of the fetch
    derive,     \* SpecDerive: the page and its derived download_tasks
    cmds,       \* SpecLock: position of every command invocation
    lockHeld,   \* SpecLock: upload_lock.locked()
    last_used,  \* SpecLock: the users still inside their cooldown
    drv         \* Spec: state of one run of upload_task / check_sp_asset

wikiVars == <<pages, archive, nextRev, cache, cdn, last, prev, calls>>
lockVars == <<cmds, lockHeld, last_used>>
vars == <<pages, archive, nextRev, cache, cdn, last, prev, calls, fetch, derive, cmds, lockHeld,
          last_used, drv>>

-----------------------------------------------------------------------------
(* Bounds of the model.                                                    *)

\* calls explored in a row by SpecOps
MaxCalls == 2
\* longest chain of redirect pages present in an initial wiki
MaxChain == 3
\* depth at which the recursion of investigate_backlinks is cut off with a
\* RecursionError (stands for the interpreter's recursion limit)
RecursionLimit == 6
\* an injected fault hits one of the first MaxFaultAt writes of a call
MaxFaultAt == 1

\* longest script of answers a URL is given
MaxScript == 5

-----------------------------------------------------------------------------
(* Python string operations used by the code.                              *)

Lowers == "abcdefghijklmnopqrstuvwxyz"
Uppers == "ABCDEFGHIJKLMNOPQRSTUVWXYZ"
Digits == "0123456789"

Ch(s, i) == SubSeq(s, i, i)

LowerSet == {Ch(Lowers, i) : i \in 1..26}
UpperSet == {Ch(Uppers, i) : i \in 1..26}
DigitSet == {Ch(Digits, i) : i \in 1..10}

ToLower == [c \in UpperSet |-> Ch(Lowers, CHOOSE i \in 1..26 : Ch(Uppers, i) = c)]
ToUpper == [c \in LowerSet |-> Ch(Uppers, CHOOSE i \in 1..26 : Ch(Lowers, i) = c)]
DigitVal == [c \in DigitSet |-> (CHOOSE i \in 1..10 : Ch(Digits, i) = c) - 1]

LowerCh(c) == IF c \in UpperSet THEN ToLower[c] ELSE c
UpperCh(c) == IF c \in LowerSet THEN ToUpper[c] ELSE c

RECURSIVE lower(_)
\* str.lower()
lower(s) == IF s = "" THEN "" ELSE LowerCh(Head(s)) \o lower(Tail(s))

\* str.capitalize(): first character upper-cased, all the others lower-cased
capitalize(s) == IF s = "" THEN "" ELSE UpperCh(Head(s)) \o lower(Tail(s))

\* s[0].upper() + s[1:]
UpperFirst(s) == UpperCh(Head(s)) \o Tail(s)

RECURSIVE replace_us(_)
\* str.replace("_", " ")
replace_us(s) == IF s = "" THEN ""
                 ELSE (IF Head(s) = "_" THEN " " ELSE Head(s)) \o replace_us(Tail(s))

RECURSIVE lstrip(_)
lstrip(s) == IF s # "" /\ Head(s) = " " THEN lstrip(Tail(s)) ELSE s

RECURSIVE rstrip(_)
rstrip(s) == IF s # "" /\ Ch(s, Len(s)) = " " THEN rstrip(SubSeq(s, 1, Len(s) - 1)) ELSE s

\* str.strip()
strip(s) == rstrip(lstrip(s))

\* str.startswith(p)
startswith(s, p) == Len(s) >= Len(p) /\ SubSeq(s, 1, Len(p)) = p

\* str.endswith(p)
endswith(s, p) == Len(s) >= Len(p) /\ SubSeq(s, Len(s) - Len(p) + 1, Len(s)) = p

\* "p in s"
contains(s, p) == \E i \in 1..(Len(s) - Len(p) + 1) : SubSeq(s, i, i + Len(p) - 1) = p

\* s[n:]
drop(s, n) == SubSeq(s, n + 1, Len(s))

\* length of the longest prefix of s made of characters of the set cs
RECURSIVE span(_, _)
span(s, cs) == IF s # "" /\ Head(s) \in cs THEN 1 + span(Tail(s), cs) ELSE 0

RECURSIVE int(_)
\* int() of a string of decimal digits
int(s) == IF s = "" THEN 0 ELSE 10 * int(SubSeq(s, 1, Len(s) - 1)) + DigitVal[Ch(s, Len(s))]

RECURSIVE first_digits(_)
\* re.search(r'\d+', s).group(0): the first run of digits of s ("" when there is none)
first_digits(s) == IF s = "" THEN ""
                   ELSE IF Head(s) \in DigitSet THEN SubSeq(s, 1, span(s, DigitSet))
                   ELSE first_digits(Tail(s))

-----------------------------------------------------------------------------
(* The wiki as the code sees it through mwclient.                          *)

\* a page that does not exist
NoPage == [exists |-> FALSE, text |-> "", rev |-> 0, body |-> ""]

\* title normalisation of wiki.pages[...]: underscores are spaces, the first
\* letter after the namespace is upper case
WikiTitle(t) ==
    IF startswith(t, "File:") /\ Len(t) > 5
    THEN "File:" \o UpperFirst(replace_us(drop(t, 5)))
    ELSE IF t = "" THEN "" ELSE UpperFirst(replace_us(t))

\* wiki.pages[name] / wiki.images[name]
PageOf(pg, t) == IF WikiTitle(t) \in DOMAIN pg THEN pg[WikiTitle(t)] ELSE NoPage

\* '#REDIRECT [[{0}]]'.format(target)
RedirectText(target) == "#REDIRECT [[" \o target \o "]]"

\* page.redirect: the page exists and its text is a redirect
IsRedirect(p) ==
    p.exists /\ startswith(p.text, "#REDIRECT [[") /\ endswith(p.text, "]]") /\ Len(p.text) > 14

\* the title a redirect page points at
RedirectTarget(p) == WikiTitle(SubSeq(p.text, 13, Len(p.text) - 2))

\* hashlib.sha1(content).hexdigest(): distinct contents have distinct digests
sha1_hexdigest(body) == "sha1-" \o body

RECURSIVE SetToSeq(_)
\* the order in which the wiki lists a set of pages
SetToSeq(S) == IF S = {} THEN <<>>
               ELSE LET x == CHOOSE y \in S : TRUE IN <<x>> \o SetToSeq(S \ {x})

\* page.backlinks(filterredir='redirects'): the redirect pages pointing at t
backlinks(pg, t) ==
    SetToSeq({b \in DOMAIN pg : IsRedirect(pg[b]) /\ RedirectTarget(pg[b]) = WikiTitle(t)})

\* imageinfo['url'] of a current file and of an archived copy
ImageUrl(t) == "https://gbf.wiki/images/" \o drop(t, 5)
ArchiveUrl(t) == "https://gbf.wiki/images/archive/20200101000000!" \o drop(t, 5)

\* wiki.allimages(minsize=size, maxsize=size, sha1=sha1): every stored copy
\* with that size and digest, each with its name, page_title and url
allimages(pg, arch, size, sha1) ==
    SetToSeq(
        {[name |-> t, page_title |-> drop(t, 5), url |-> ImageUrl(t)] :
            t \in {u \in DOMAIN pg : pg[u].exists /\ pg[u].body # ""
                        /\ Len(pg[u].body) = size /\ sha1_hexdigest(pg[u].body) = sha1}}
        \cup
        {[name |-> a.title, page_title |-> drop(a.title, 5), url |-> ArchiveUrl(a.title)] :
            a \in {x \in arch : Len(x.body) = size /\ sha1_hexdigest(x.body) = sha1}})

-----------------------------------------------------------------------------
(* One handler call runs on a "world" w: the wiki, the cache and the CDN   *)
(* it reads and writes, the log of what it did, and the fault the          *)
(* environment injects into this call.  Once w.raised is set an exception  *)
(* is propagating and the remaining statements of the call do nothing.     *)

NoFault == [kind |-> "none", at |-> 0, n |-> 0, code |-> ""]

\* what a handler returns: None, False, True or a file name
RetNone == [kind |-> "None", name |-> ""]
RetFalse == [kind |-> "False", name |-> ""]
RetTrue == [kind |-> "True", name |-> ""]
RetName(n) == [kind |-> "name", name |-> n]

\* dry: the call runs in a DryRunWikiImages; noops: the saves so far whose
\* text was the text the page already held
World(pg, arch, nr, ca, cd, fault) ==
    [pages |-> pg, archive |-> arch, nextRev |-> nr, cache |-> ca, cdn |-> cd,
     log |-> <<>>, raised |-> FALSE, fault |-> fault, val |-> "", ret |-> RetNone,
     dry |-> FALSE, noops |-> 0, trace |-> <<>>, visits |-> <<>>]

\* the world of a call made through DryRunWikiImages
DryWorld(pg, arch, nr, ca, cd, fault) == [World(pg, arch, nr, ca, cd, fault) EXCEPT !.dry = TRUE]

\* the driver calls handler op with argument a: the calls made are kept, in
\* order, in w.trace
Called(w, op, a) ==
    IF w.raised THEN w ELSE [w EXCEPT !.trace = Append(@, [op |-> op, a |-> a])]

Entry(op, a, b, ok) == [op |-> op, a |-> a, b |-> b, ok |-> ok, tries |-> 1]

IsWrite(e) == e.op \in {"save", "move", "upload"}

\* attempted and successful wiki writes of a log
Writes(log) == SelectSeq(log, IsWrite)
IsDoneWrite(e) == IsWrite(e) /\ e.ok
DoneWrites(log) == SelectSeq(log, IsDoneWrite)
IsSave(e) == e.op = "save"
Saves(log) == SelectSeq(log, IsSave)
IsFetch(e) == e.op = "fetch"
Fetches(log) == SelectSeq(log, IsFetch)

\* the write about to be attempted is the one the injected fault hits
FaultHits(w) == w.fault.kind = "write" /\ w.fault.at = Len(Writes(w.log)) + 1

Raise(w, e) == [w EXCEPT !.raised = TRUE, !.log = Append(@, e)]

\* page.save(text, ...): a new revision of the page; an APIError propagates
save(w, t, text) ==
    IF w.raised THEN w
    ELSE IF FaultHits(w) THEN Raise(w, Entry("save", WikiTitle(t), text, FALSE))
    ELSE [w EXCEPT
            !.pages = (WikiTitle(t) :> [exists |-> TRUE, text |-> text, rev |-> w.nextRev,
                                        body |-> PageOf(w.pages, t).body]) @@ @,
            !.nextRev = @ + 1,
            !.noops = IF PageOf(w.pages, t).exists /\ PageOf(w.pages, t).text = text
                      THEN @ + 1 ELSE @,
            !.log = Append(@, Entry("save", WikiTitle(t), text, TRUE))]

-----------------------------------------------------------------------------
(* Hasher/Fetcher.  A URL answers a request with the next answer of its    *)
(* script; status 0 stands for a transport-level error.                    *)

max_retries == 3

\* the retry list without 503
RetryStatusesNo503 == {407, 429, 500, 502, 504}

RetryStatuses == {407, 429, 500, 502, 503, 504}

\* the k-th answer of a script; the last answer repeats
Answer(script, k) == IF k <= Len(script) THEN script[k] ELSE script[Len(script)]

\* "wait_time = 2 ** attempt" read as three times the attempt number
wait_time_linear(attempt) == 3 * attempt

\* "wait_time = 2 ** attempt": the seconds slept before the next attempt
wait_time(attempt) == 2 ^ attempt

\* a failed fetch after n requests and the sleeps made between them
FetchFailed(n, sleeps) ==
    [success |-> FALSE, sha1 |-> "", size |-> 0, io |-> "", requests |-> n, sleeps |-> sleeps]

RECURSIVE get_image_from(_, _, _)
\* the loop "for attempt in range(max_retries + 1)" of get_image, from
\* `attempt` on, after the time.sleep calls `sleeps`
get_image_from(script, attempt, sleeps) ==
    IF attempt > max_retries THEN FetchFailed(attempt, sleeps)
    ELSE LET req == Answer(script, attempt + 1) IN
         IF req.status = 0
         THEN IF attempt < max_retries
              THEN get_image_from(script, attempt + 1, Append(sleeps, wait_time(attempt)))
              ELSE FetchFailed(attempt + 1, sleeps)
         ELSE IF req.status = 200
         THEN [success |-> TRUE, sha1 |-> sha1_hexdigest(req.body), size |-> Len(req.body),
               io |-> req.body, requests |-> attempt + 1, sleeps |-> sleeps]
         ELSE IF req.status = 404 THEN FetchFailed(attempt + 1, sleeps)
         ELSE IF req.status \in RetryStatuses
         THEN IF attempt < max_retries
              THEN get_image_from(script, attempt + 1, Append(sleeps, wait_time(attempt)))
              ELSE FetchFailed(attempt + 1, sleeps)
         ELSE FetchFailed(attempt + 1, sleeps)

get_image_script(script) == get_image_from(script, 0, <<>>)

RECURSIVE download_single_from(_, _, _)
\* the same loop in get_images_concurrent.download_single, the sleeps being
\* asyncio.sleep calls
download_single_from(script, attempt, sleeps) ==
    IF attempt > max_retries THEN FetchFailed(attempt, sleeps)
    ELSE LET response == Answer(script, attempt + 1) IN
         IF response.status = 0
         THEN IF attempt < max_retries
              THEN download_single_from(script, attempt + 1, Append(sleeps, wait_time(attempt)))
              ELSE FetchFailed(attempt + 1, sleeps)
         ELSE IF response.status = 200
         THEN [success |-> TRUE, sha1 |-> sha1_hexdigest(response.body),
               size |-> Len(response.body), io |-> response.body, requests |-> attempt + 1,
               sleeps |-> sleeps]
         ELSE IF response.status = 404 THEN FetchFailed(attempt + 1, sleeps)
         ELSE IF response.status \in RetryStatuses
         THEN IF attempt < max_retries
              THEN download_single_from(script, attempt + 1, Append(sleeps, wait_time(attempt)))
              ELSE FetchFailed(attempt + 1, sleeps)
         ELSE FetchFailed(attempt + 1, sleeps)

download_single(script) == download_single_from(script, 0, <<>>)

\* what is left of a script after n requests
Consume(script, n) ==
    IF n >= Len(script) THEN <<script[Len(script)]>> ELSE SubSeq(script, n + 1, Len(script))

NotFound == <<[status |-> 404, body |-> "Not Found"]>>

ScriptOf(cd, url) == IF url \in DOMAIN cd THEN cd[url] ELSE NotFound

\* get_image(url) inside a handler call: the result is left in w.val
get_image(w, url) ==
    IF w.raised THEN w
    ELSE LET r == get_image_script(ScriptOf(w.cdn, url)) IN
         [w EXCEPT !.val = r,
                   !.cdn = (url :> Consume(ScriptOf(w.cdn, url), r.requests)) @@ @,
                   !.log = Append(@, [Entry("fetch", url, r.sha1, r.success)
                                        EXCEPT !.tries = r.requests])]

-----------------------------------------------------------------------------
(* GBFDB.pagetext: the local page-text cache.                              *)

\* pagetext answering from the cache whatever revision is asked for
pagetext_any_revision(w, pagename, revision) ==
    IF w.raised THEN w
    ELSE IF pagename \in DOMAIN w.cache
    THEN [w EXCEPT !.val = w.cache[pagename].text]
    ELSE IF PageOf(w.pages, pagename).exists
    THEN [w EXCEPT !.val = PageOf(w.pages, pagename).text,
                   !.cache = (WikiTitle(pagename) :> [text |-> PageOf(w.pages, pagename).text,
                                                      rev |-> PageOf(w.pages, pagename).rev]) @@ @]
    ELSE [w EXCEPT !.val = "None"]

\* db.pagetext(wiki, pagename, revision): the cached text when the cached
\* revision is the one asked for, else the page's text, which is cached;
\* the text is left in w.val ("None" for a missing page)
pagetext(w, pagename, revision) ==
    IF w.raised THEN w
    ELSE IF pagename \in DOMAIN w.cache /\ w.cache[pagename].rev = revision
    THEN [w EXCEPT !.val = w.cache[pagename].text]
    ELSE LET page == PageOf(w.pages, pagename) IN
         IF page.exists
         THEN [w EXCEPT !.val = page.text,
                        !.cache = (WikiTitle(pagename) :> [text |-> page.text, rev |-> page.rev]) @@ @]
         ELSE [w EXCEPT !.val = "None"]

-----------------------------------------------------------------------------
(* Wiki writes other than page.save.                                       *)

max_attempts == 5

\* _perform_wiki_action_with_retry around an action that answers n times
\* with the API error `code` before its own outcome: the number of calls
\* made, and whether the error is re-raised
retry_calls(n, code) ==
    IF n = 0 THEN [calls |-> 1, raised |-> FALSE]
    ELSE IF code \in {"ratelimited", "maxlag"}
    THEN IF n <= max_attempts THEN [calls |-> n + 1, raised |-> FALSE]
         ELSE [calls |-> max_attempts + 1, raised |-> TRUE]
    ELSE [calls |-> 1, raised |-> TRUE]

\* the wiki refuses a move whose source is missing or whose target exists,
\* unless the target is a redirect back to the source
MoveRefused(pg, from, to) ==
    \/ ~PageOf(pg, from).exists
    \/ WikiTitle(from) = WikiTitle(to)
    \/ /\ PageOf(pg, to).exists
       /\ ~(IsRedirect(PageOf(pg, to)) /\ RedirectTarget(PageOf(pg, to)) = WikiTitle(from))

\* self._perform_wiki_action_with_retry(page.move, new_title, reason=...):
\* the page and its file go to the new title, a redirect is left behind
move(w, from, to) ==
    IF w.raised THEN w
    ELSE LET f == WikiTitle(from)
             t == WikiTitle(to)
             r == IF FaultHits(w) THEN retry_calls(w.fault.n, w.fault.code)
                  ELSE retry_calls(0, "")
             refused == MoveRefused(w.pages, from, to)
             e == [Entry("move", f, t, ~r.raised /\ ~refused) EXCEPT !.tries = r.calls]
         IN  IF r.raised \/ refused THEN Raise(w, e)
             ELSE [w EXCEPT
                     !.pages = (t :> [exists |-> TRUE, text |-> w.pages[f].text,
                                      rev |-> w.nextRev, body |-> w.pages[f].body])
                               @@ (f :> [exists |-> TRUE, text |-> RedirectText(t),
                                         rev |-> w.nextRev + 1, body |-> ""])
                               @@ @,
                     !.archive = {IF a.title = f THEN [a EXCEPT !.title = t] ELSE a : a \in @},
                     !.nextRev = @ + 2,
                     !.log = Append(@, e)]

\* DryRunWikiImages._dry_run_upload, which replaces wiki.upload: nothing is
\* sent, the answer is {'result': 'Success'}
_dry_run_upload(w, filename, body) ==
    [w EXCEPT !.val = "Success",
              !.log = Append(@, Entry("dry_run_upload", WikiTitle("File:" \o filename), body, TRUE))]

\* self.wiki.upload(io, filename=true_name, ignore=True) inside its try: the
\* result ("Success", "Warning", or "exception" when the call raised, which
\* check_image catches) is left in w.val
upload(w, filename, body) ==
    IF w.raised THEN w
    ELSE LET t == WikiTitle("File:" \o filename)
             old == PageOf(w.pages, t)
         IN  IF w.dry THEN _dry_run_upload(w, filename, body)
             ELSE IF FaultHits(w)
             THEN [w EXCEPT !.val = "exception",
                            !.log = Append(@, Entry("upload", t, body, FALSE))]
             ELSE IF w.fault.kind = "warning" \/ (old.exists /\ old.body = body)
             THEN [w EXCEPT !.val = "Warning",
                            !.log = Append(@, Entry("upload", t, body, FALSE))]
             ELSE [w EXCEPT
                     !.val = "Success",
                     !.pages = (t :> [exists |-> TRUE, text |-> old.text,
                                      rev |-> w.nextRev, body |-> body]) @@ @,
                     !.archive = IF old.body # "" THEN @ \cup {[title |-> t, body |-> old.body]}
                                 ELSE @,
                     !.nextRev = @ + 1,
                     !.log = Append(@, Entry("upload", t, body, TRUE))]

-----------------------------------------------------------------------------
(* Redirect Graph Maintainer.  A handler is the composition of its         *)
(* statements, each taking the world its predecessor left.                 *)

\* "page_text = self.db.pagetext(...) if page.exists else ''"
redirect_page_text(w, from) ==
    IF PageOf(w.pages, from).exists
    THEN pagetext(w, WikiTitle(from), PageOf(w.pages, from).rev)
    ELSE [w EXCEPT !.val = ""]

\* check_redirect saving without the comparison of the two texts
save_redirect_always(w, from, new_text) ==
    IF w.raised THEN w
    ELSE save(w, from, new_text)

\* "if page_text != new_text: page.save(new_text, ...)", page_text in w.val
save_redirect(w, from, new_text) ==
    IF w.raised THEN w
    ELSE IF w.val # new_text THEN save(w, from, new_text)
    ELSE w

\* check_redirect(redirect_to, redirect_from)
check_redirect(w, redirect_to, redirect_from) ==
    IF w.raised THEN w
    ELSE save_redirect(redirect_page_text(w, replace_us(redirect_from)),
                       replace_us(redirect_from),
                       RedirectText(replace_us(redirect_to)))

\* check_file_redirect(redirect_to, redirect_from)
check_file_redirect(w, redirect_to, redirect_from) ==
    check_redirect(w, "File:" \o UpperFirst(redirect_to), "File:" \o UpperFirst(redirect_from))

\* a backlink that is read and never rewritten
resolve_redirect_unsaved(w, title, new_text) == w

\* "if text.startswith('#REDIRECT [[File:'): if new_text != text: save",
\* the text read being in w.val
resolve_redirect(w, title, new_text) ==
    IF w.raised THEN w
    ELSE IF startswith(w.val, "#REDIRECT [[File:") /\ new_text # w.val
    THEN save(w, title, new_text)
    ELSE w

\* the inner loop "for depth in depths" of check_double_redirect
RECURSIVE double_redirect_depths(_, _, _)
double_redirect_depths(w, depths, page_name) ==
    IF depths = <<>> \/ w.raised THEN w
    ELSE double_redirect_depths(
             resolve_redirect(pagetext(w, Head(depths), PageOf(w.pages, Head(depths)).rev),
                              Head(depths), RedirectText(page_name)),
             Tail(depths), page_name)

\* the outer loop "for backlink in backlinks" of check_double_redirect
RECURSIVE double_redirect_backlinks(_, _, _)
double_redirect_backlinks(w, bls, page_name) ==
    IF bls = <<>> \/ w.raised THEN w
    ELSE double_redirect_backlinks(
             double_redirect_depths(w, backlinks(w.pages, Head(bls)), page_name),
             Tail(bls), page_name)

\* check_double_redirect(true_name)
check_double_redirect(w, true_name) ==
    double_redirect_backlinks(w, backlinks(w.pages, WikiTitle(replace_us(true_name))),
                              WikiTitle(replace_us(true_name)))

\* check_file_double_redirect(true_name)
check_file_double_redirect(w, true_name) ==
    check_double_redirect(w, "File:" \o UpperFirst(true_name))

\* investigate_backlinks(backlinks, source, target); the listings are lazy,
\* so each is read when its loop starts
\* 'Found backlink "{0}"...': the pages the loops came to are kept, in
\* order, in w.visits
Found(w, backlink) ==
    IF w.raised THEN w ELSE [w EXCEPT !.visits = Append(@, backlink)]

RECURSIVE investigate_backlinks(_, _, _, _)
investigate_backlinks(w, bls, target, fuel) ==
    IF bls = <<>> \/ w.raised THEN w
    ELSE IF fuel = 0 THEN Raise(w, Entry("RecursionError", Head(bls), "", FALSE))
    ELSE LET backlink == Head(bls)
             tgt == replace_us(target)
             depths(w2) == investigate_backlinks(w2, backlinks(w2.pages, backlink), tgt, fuel - 1)
         IN  investigate_backlinks(
                 depths(resolve_redirect(pagetext(Found(w, backlink), backlink,
                                                  PageOf(w.pages, backlink).rev),
                                         backlink, RedirectText(tgt))),
                 Tail(bls), target, fuel)

RECURSIVE add_categories(_, _)
\* the loop of check_image_categories that appends the missing category links
add_categories(text, categories) ==
    IF categories = <<>> THEN text
    ELSE LET category_text == "[[Category:" \o Head(categories) \o "]]"
         IN  add_categories(IF contains(text, category_text) THEN text
                            ELSE text \o category_text,
                            Tail(categories))

\* check_image_categories(name, categories)
check_image_categories(w, name, categories) ==
    LET image == PageOf(w.pages, "File:" \o name)
        new_text == add_categories(image.text, categories)
    IN  IF w.raised THEN w
        ELSE IF image.exists /\ ~IsRedirect(image) /\ image.text # new_text
        THEN save(w, "File:" \o name, new_text)
        ELSE w

-----------------------------------------------------------------------------
(* Duplicate Resolver.                                                     *)

NoMatch == [ok |-> FALSE, g1 |-> "", g2 |-> "", g3 |-> "", g4 |-> ""]

\* the groups of the pattern once the prefix 'File:Summon ' or
\* 'File:Weapon ' (12 characters) has matched
dupe_groups(g1, r2, n2) ==
    LET r3 == drop(r2, n2 + 1)
        n3 == span(r3, DigitSet)
        r4 == drop(r3, n3 + 1)
    IN  IF /\ n2 >= 1 /\ Len(r2) > n2 /\ Ch(r2, n2 + 1) = " "
           /\ n3 >= 1 /\ Len(r3) > n3 /\ Ch(r3, n3 + 1) = "."
           /\ Len(r4) >= 1 /\ span(r4, LowerSet) = Len(r4)
        THEN [ok |-> TRUE, g1 |-> g1, g2 |-> SubSeq(r2, 1, n2), g3 |-> SubSeq(r3, 1, n3),
              g4 |-> r4]
        ELSE NoMatch

\* re.match(r'^File:(Summon|Weapon) ([a-z]+) (\d+)\.([a-z]+)$', name)
dupe_match(name) ==
    IF startswith(name, "File:Summon ")
    THEN dupe_groups("Summon", drop(name, 12), span(drop(name, 12), LowerSet))
    ELSE IF startswith(name, "File:Weapon ")
    THEN dupe_groups("Weapon", drop(name, 12), span(drop(name, 12), LowerSet))
    ELSE NoMatch

\* the URL built with the wiki's capitalised asset type
dupe_url_capitalised(m) ==
    "http://prd-game-a-granbluefantasy.akamaized.net/assets_en/img/sp/assets/"
        \o m.g1 \o "/" \o m.g2 \o "/" \o m.g3 \o "." \o m.g4

\* the URL check_image re-fetches for a Summon/Weapon duplicate
dupe_url(m) ==
    "http://prd-game-a-granbluefantasy.akamaized.net/assets_en/img/sp/assets/"
        \o (IF m.g1 = "Summon" THEN "summon" ELSE "weapon")
        \o "/" \o m.g2 \o "/" \o m.g3 \o "." \o m.g4

\* the filter keeping the archived copies as well
IsAnyCopy(d) == d.url # ""

IsNotArchived(d) == ~contains(d.url, "/archive/")

\* "return x" at the end of a branch the call reached without an exception
return(w, x) == IF w.raised THEN w ELSE [w EXCEPT !.ret = x]

\* "page.move(file_name); investigate_backlinks(page.backlinks(...), ...)"
move_and_investigate(w, title, file_name) ==
    LET investigate(wm) ==
            investigate_backlinks(wm, backlinks(wm.pages, title), file_name, RecursionLimit)
    IN  investigate(move(w, title, file_name))

\* the loop over other_names of the zero-match branch of check_image
RECURSIVE move_other_names(_, _, _)
move_other_names(w, other_names, file_name) ==
    IF other_names = <<>> \/ w.raised THEN w
    ELSE LET title == WikiTitle("File:" \o Head(other_names))
             page == PageOf(w.pages, title)
         IN  move_other_names(IF page.exists /\ ~IsRedirect(page)
                              THEN move_and_investigate(w, title, file_name)
                              ELSE w,
                              Tail(other_names), file_name)

\* the same statement with the redirect written at the duplicate's title
same_image_redirect_reversed(w, dupe, file_name, sha1, size) ==
    IF w.val.success /\ w.val.sha1 = sha1 /\ w.val.size = size
    THEN return(check_redirect(w, file_name, dupe.name), RetName(drop(dupe.name, 5)))
    ELSE w

\* "if dupe_image_sha1 == sha1 and dupe_image_size == size:
\*      self.check_redirect(dupe.name, file_name); return dupe.name[5:]",
\* the re-fetched image being in w.val
same_image_redirect(w, dupe, file_name, sha1, size) ==
    IF w.val.success /\ w.val.sha1 = sha1 /\ w.val.size = size
    THEN return(check_redirect(w, dupe.name, file_name), RetName(drop(dupe.name, 5)))
    ELSE w

\* the lowest-id branch of check_image for a duplicate whose name matched m
lowest_id_branch(w, m, dupe, file_name, sha1, size) ==
    IF first_digits(file_name) = ""
    THEN Raise(w, Entry("AttributeError", file_name, "", FALSE))
    ELSE IF int(m.g3) < int(first_digits(file_name))
    THEN same_image_redirect(get_image(w, dupe_url(m)), dupe, file_name, sha1, size)
    ELSE w

\* the rest of the one-match branch: unless the lowest-id branch returned,
\* the duplicate is renamed to the canonical name
rename_duplicate(w, dupe, file_name) ==
    IF w.raised \/ w.ret.kind # "None" THEN w
    ELSE return(move_and_investigate(w, dupe.name, file_name), RetName(drop(file_name, 5)))

\* the one-match branch of check_image
one_duplicate(w, dupe, true_name, sha1, size) ==
    IF lower(strip(dupe.page_title)) = lower(replace_us(true_name))
    THEN return(w, RetName(drop("File:" \o true_name, 5)))
    ELSE rename_duplicate(
             IF dupe_match(dupe.name).ok
             THEN lowest_id_branch(w, dupe_match(dupe.name), dupe, "File:" \o true_name, sha1, size)
             ELSE w,
             dupe, "File:" \o true_name)

\* the end of the zero-match branch: the upload inside its try
upload_result(w) ==
    IF w.raised THEN w
    ELSE IF w.val # "Success" THEN return(w, RetFalse)
    ELSE return(w, RetTrue)

\* the zero-match branch of check_image
no_duplicate(w, true_name, io, other_names) ==
    upload_result(upload(move_other_names(w, other_names, "File:" \o true_name), true_name, io))

\* DryRunWikiImages._dry_run_allimages, which replaces wiki.allimages
_dry_run_allimages == <<>>

\* the search result taken without the filter on '/archive/'
duplicates_of_unfiltered(w, sha1, size) ==
    IF w.dry THEN _dry_run_allimages
    ELSE IF w.fault.kind = "search" THEN <<>>
    ELSE allimages(w.pages, w.archive, size, sha1)

\* "wiki_duplicates = list(self.wiki.allimages(...))" in its try, then the
\* filter on '/archive/'
duplicates_of(w, sha1, size) ==
    SelectSeq(IF w.dry THEN _dry_run_allimages
              ELSE IF w.fault.kind = "search" THEN <<>>
              ELSE allimages(w.pages, w.archive, size, sha1),
              IsNotArchived)

\* the search is logged before the branches run
searched(w, sha1) ==
    [w EXCEPT !.log = Append(@, Entry(IF w.dry THEN "dry_run_allimages" ELSE "search", sha1, "",
                                      w.dry \/ w.fault.kind # "search"))]

\* check_image skipping only when more than two files match
check_image_over_two(w, name, sha1, size, io, other_names) ==
    IF Len(duplicates_of(w, sha1, size)) > 2 THEN return(searched(w, sha1), RetFalse)
    ELSE IF Len(duplicates_of(w, sha1, size)) >= 1
    THEN one_duplicate(searched(w, sha1), duplicates_of(w, sha1, size)[1], capitalize(name),
                       sha1, size)
    ELSE no_duplicate(searched(w, sha1), capitalize(name), io, other_names)

\* check_image(name, sha1, size, io, other_names)
check_image(w, name, sha1, size, io, other_names) ==
    LET true_name == capitalize(name)
        duplicates == duplicates_of(w, sha1, size)
    IN  IF Len(duplicates) > 1 THEN return(searched(w, sha1), RetFalse)
        ELSE IF Len(duplicates) = 1
        THEN one_duplicate(searched(w, sha1), duplicates[1], true_name, sha1, size)
        ELSE no_duplicate(searched(w, sha1), true_name, io, other_names)

-----------------------------------------------------------------------------
(* The inputs and the initial wikis explored.                              *)

\* file contents: B1 and B2 have the same size and different digests
B1 == "PNG-1"
B2 == "PNG-2"

N300 == "Summon b 1010200300.png"
N301 == "Summon b 1010200301.png"
Alias == "Bahamut.png"
Old == "Old upload.png"

F(name) == "File:" \o name

\* the redirect pages of an initial chain: R(1) points at the end of the
\* chain, R(i+1) points at R(i)
R(i) == "File:Redirect " \o Ch(Digits, i + 1) \o ".png"

FilePage(body, rev) == [exists |-> TRUE, text |-> "", rev |-> rev, body |-> body]
RedirectPage(target, rev) == [exists |-> TRUE, text |-> RedirectText(target), rev |-> rev, body |-> ""]

\* where copies of B1 are stored when a run starts
DupPlacements == {{}, {N300}, {N301}, {Old}, {Alias}, {N300, Old}, {N301, Old},
                  {"Status 1438.png"}}

\* where a file with the other content B2 is stored ("" for nowhere)
OtherPlacements == {"", N301, Alias}

ChainEnds == {N301, Alias, Old}

\* the wiki with copies of B1 at dup, B2 at other, and a chain of len
\* redirect pages ending at end_
InitialPages(dup, other, len, end_) ==
    LET files == [t \in {F(n) : n \in dup \cup (IF other = "" THEN {} ELSE {other})} |->
                    IF t = F(other) /\ other \notin dup THEN FilePage(B2, 2) ELSE FilePage(B1, 1)]
        chain == [t \in {R(i) : i \in 1..len} |->
                    LET i == CHOOSE j \in 1..len : R(j) = t
                    IN  RedirectPage(IF i = 1 THEN F(end_) ELSE R(i - 1), 2 + i)]
    IN  files @@ chain

\* a third content, of the size of B1 and B2
B3 == "PNG-3"

\* wikis where the alias names of a new image are taken by other files:
\* both aliases, or one alias and the canonical name
AliasFileWikis ==
    {(F(Alias) :> FilePage(B2, 2)) @@ (F("Bahamut A.png") :> FilePage(B3, 3)),
     (F(Alias) :> FilePage(B2, 2)) @@ (F(N301) :> FilePage(B3, 3))}

\* the revision ids 1 .. FirstRev - 1 are taken by the initial pages
FirstRev == 10

\* the faults the environment may inject into one handler call: a write
\* that answers n times with a rate-limit error, a failing file search, an
\* upload answered with a warning
WriteFault(k, n) == [kind |-> "write", at |-> k, n |-> n, code |-> "ratelimited"]
SaveFaults == {NoFault} \cup {WriteFault(k, 1) : k \in 1..MaxFaultAt}
Faults ==
    SaveFaults
    \cup {[kind |-> "search", at |-> 0, n |-> 0, code |-> ""],
          [kind |-> "warning", at |-> 0, n |-> 0, code |-> ""]}
    \cup {WriteFault(k, max_attempts + 1) : k \in 1..MaxFaultAt}

\* the CDN's answers for the URL of the lower-numbered summon image
LowUrl == "http://prd-game-a-granbluefantasy.akamaized.net/assets_en/img/sp/assets/summon/b/1010200300.png"
CdnChoices ==
    {<<[status |-> 200, body |-> B1]>>,
     <<[status |-> 200, body |-> B2]>>,
     NotFound}

-----------------------------------------------------------------------------
(* SpecOps: single handler calls against every initial wiki.               *)

NoCall == [op |-> "none", a |-> "", b |-> "", others |-> <<>>, io |-> "",
           pre |-> <<>>, log |-> <<>>, ret |-> RetNone, raised |-> FALSE,
           fault |-> NoFault, noops |-> 0]

CallRec(op, a, b, others, io, w) ==
    [op |-> op, a |-> a, b |-> b, others |-> others, io |-> io,
     pre |-> pages, log |-> w.log, ret |-> w.ret, raised |-> w.raised,
     fault |-> w.fault, noops |-> w.noops]

Idle == /\ fetch = [pc |-> "off"]
        /\ derive = [pc |-> "off"]
        /\ cmds = <<>>
        /\ lockHeld = FALSE
        /\ last_used = {}
        /\ drv = [pc |-> "off"]

InitWiki ==
    /\ \/ \E dup \in DupPlacements, other \in OtherPlacements, len \in 0..MaxChain, end_ \in ChainEnds :
             /\ len = 0 => end_ = N301
             /\ pages = InitialPages(dup, other, len, end_)
       \/ pages \in AliasFileWikis
    /\ archive \in {{}, {[title |-> F(Old), body |-> B1]}}
    /\ nextRev = FirstRev
    /\ cache = <<>>
    /\ cdn = <<>>
    /\ last = NoCall
    /\ prev = NoCall
    /\ calls = 0

InitOps == InitWiki /\ Idle

\* the world a handler call starts in
Now(fault) == World(pages, archive, nextRev, cache, cdn, fault)

\* the same, with the CDN answering the lower-numbered URL with script
NowWith(fault, script) == World(pages, archive, nextRev, cache, (LowUrl :> script) @@ cdn, fault)

\* the handler call op(a, b, others, io) under the injected fault
Run(op, a, b, others, io, fault) ==
    CASE op = "check_image" -> check_image(Now(fault), a, sha1_hexdigest(io), Len(io), io, others)
      [] op = "check_redirect" -> check_redirect(Now(fault), a, b)
      [] op = "check_double_redirect" -> check_double_redirect(Now(fault), a)
      [] op = "check_image_categories" -> check_image_categories(Now(fault), a, others)

\* the call ends: what it wrote is in the wiki, the cache and the CDN
Commit(op, a, b, others, io, w) ==
    /\ pages' = w.pages
    /\ archive' = w.archive
    /\ nextRev' = w.nextRev
    /\ cache' = w.cache
    /\ cdn' = w.cdn
    /\ prev' = last
    /\ last' = CallRec(op, a, b, others, io, w)
    /\ calls' = calls + 1
    /\ UNCHANGED <<fetch, derive, lockVars, drv>>

\* the (name, other_names) pairs check_image is called with
ImageCalls == {<<N301, <<Alias, "Bahamut A.png">>>>,
               <<N300, <<Alias, "Bahamut A.png">>>>,
               <<"status_1438.png", <<>>>>,
               <<"Summon b 1010200301_02.png", <<"Bahamut B.png">>>>}

CallCheckImage ==
    /\ calls = 0
    /\ \E c \in ImageCalls, fault \in Faults, script \in CdnChoices :
          Commit("check_image", c[1], "", c[2], B1,
                 check_image(NowWith(fault, script), c[1], sha1_hexdigest(B1), Len(B1), B1, c[2]))

RedirectTargets == {F(N300), F(N301)}
RedirectSources == {F(Alias), F(N301), R(1), "File:bahamut_icon.png"}

CallCheckRedirect ==
    /\ calls = 0
    /\ \E to \in RedirectTargets, from \in RedirectSources, fault \in SaveFaults :
          /\ to # from
          /\ Commit("check_redirect", to, from, <<>>, "",
                    check_redirect(Now(fault), to, from))

CallCheckDoubleRedirect ==
    /\ calls = 0
    /\ \E true_name \in {F(N300), F(N301), F(Alias), "File:summon_b_1010200301.png"},
          fault \in SaveFaults :
          Commit("check_double_redirect", true_name, "", <<>>, "",
                 check_double_redirect(Now(fault), true_name))

\* the category lists check_image_categories is called with
CategoryLists == {<<"Summon Images">>, <<"Summon Images", "Summon Square Images">>}

CallCheckImageCategories ==
    /\ calls = 0
    /\ \E name \in {N301, Alias, "Missing.png"}, categories \in CategoryLists, fault \in SaveFaults :
          Commit("check_image_categories", name, "", categories, "",
                 check_image_categories(Now(fault), name, categories))

\* the same call again, with no other wiki change in between
Repeat ==
    /\ calls >= 1
    /\ calls < MaxCalls
    /\ Commit(last.op, last.a, last.b, last.others, last.io,
              Run(last.op, last.a, last.b, last.others, last.io, NoFault))

NextOps ==
    \/ CallCheckImage
    \/ CallCheckRedirect
    \/ CallCheckDoubleRedirect
    \/ CallCheckImageCategories
    \/ Repeat

SpecOps == InitOps /\ [][NextOps]_vars

-----------------------------------------------------------------------------
(* Properties of single handler calls (SpecOps).                           *)

\* the current, non-archived files of a wiki whose content is io
CurrentMatches(pg, io) == {t \in DOMAIN pg : pg[t].exists /\ pg[t].body = io}

\* the content search of a check_image call answered
SearchAnswered(c) == c.op = "check_image" /\ c.log # <<>> /\ c.log[1].op = "search" /\ c.log[1].ok

\* title t is the canonical name of `name` up to case and underscores
SameTitle(t, name) == lower(strip(drop(t, 5))) = lower(replace_us(capitalize(name)))

OneSameNameMatch(c) ==
    /\ SearchAnswered(c)
    /\ \E t \in CurrentMatches(c.pre, c.io) :
          CurrentMatches(c.pre, c.io) = {t} /\ SameTitle(t, c.a)

\* C1: when the content search of check_image finds exactly one non-archived
\* file and its title equals the canonical name up to case and underscores,
\* the call returns the canonical name and attempts no move, upload or save
C1_AlreadyCorrect ==
    OneSameNameMatch(last) =>
        /\ ~last.raised
        /\ last.ret = RetName(capitalize(last.a))
        /\ Writes(last.log) = <<>>

\* C1 is met by a name given in lower case with an underscore
C1_Witness ==
    /\ OneSameNameMatch(last)
    /\ last.a = "status_1438.png"
    /\ last.ret = RetName("Status_1438.png")

\* C2: when two or more non-archived files match, check_image returns False
\* and attempts no move, upload or save and no fetch
C2_Ambiguous ==
    (SearchAnswered(last) /\ Cardinality(CurrentMatches(last.pre, last.io)) >= 2) =>
        /\ ~last.raised
        /\ last.ret = RetFalse
        /\ Writes(last.log) = <<>>
        /\ Fetches(last.log) = <<>>

\* C2 is met with the lower-numbered summon file among the two matches
C2_Witness ==
    /\ SearchAnswered(last)
    /\ CurrentMatches(last.pre, last.io) = {F(N300), F(Old)}
    /\ last.a = N301
    /\ last.ret = RetFalse

\* the text check_redirect finds on the source page of call c
SourceText(c) == PageOf(c.pre, replace_us(c.b)).text

TwoRedirectCalls ==
    /\ last.op = "check_redirect" /\ prev.op = "check_redirect"
    /\ last.a = prev.a /\ last.b = prev.b
    /\ ~prev.raised /\ ~last.raised
    /\ SourceText(prev) # RedirectText(replace_us(prev.a))

\* C3: of two consecutive calls check_redirect(T, S) that return, S's text
\* differing from '#REDIRECT [[T]]' before the first, the first saves the
\* page exactly once and the second saves nothing
C3_RedirectOnce ==
    TwoRedirectCalls => Len(Saves(prev.log)) = 1 /\ Len(Saves(last.log)) = 0

\* C3 is met on a source page that was a redirect to another target
C3_Witness ==
    /\ TwoRedirectCalls
    /\ IsRedirect(PageOf(prev.pre, prev.b))
    /\ Len(DoneWrites(prev.log)) = 1

\* the pages of pg redirecting to title c directly
DirectTo(pg, c) == {b \in DOMAIN pg : IsRedirect(pg[b]) /\ RedirectTarget(pg[b]) = c}

\* the pages of pg redirecting to a page that redirects to c
OneHopTo(pg, c) ==
    {b \in DOMAIN pg : IsRedirect(pg[b]) /\ RedirectTarget(pg[b]) \in DirectTo(pg, c)}

\* C4: after check_double_redirect(C) returns, every page redirecting to C
\* directly and every page redirecting to such a page has the redirect text
\* of C
C4_CollapsedToCanonical ==
    (last.op = "check_double_redirect" /\ ~last.raised) =>
        \A b \in DirectTo(pages, WikiTitle(replace_us(last.a)))
                 \cup OneHopTo(pages, WikiTitle(replace_us(last.a))) :
            pages[b].text = RedirectText(WikiTitle(replace_us(last.a)))

\* the only file with the new content is the lower-numbered summon image
\* and the CDN still serves that content at the lower-numbered URL
LowestIdScenario(c) ==
    /\ SearchAnswered(c)
    /\ c.a = N301
    /\ CurrentMatches(c.pre, c.io) = {F(N300)}
    /\ \E i \in 1..Len(c.log) :
          c.log[i] = [Entry("fetch", LowUrl, sha1_hexdigest(c.io), TRUE) EXCEPT !.tries = c.log[i].tries]

\* C7: in the lowest-id scenario check_image fetches the URL ending in
\* 'summon/b/1010200300.png', returns 'Summon b 1010200300.png', and its
\* only write is the save making 'File:Summon b 1010200301.png' a redirect
\* to 'File:Summon b 1010200300.png'
C7_LowestIdKept ==
    /\ (SearchAnswered(last) /\ last.a = N301 /\ CurrentMatches(last.pre, last.io) = {F(N300)})
          => \E i \in 1..Len(last.log) :
                /\ last.log[i].op = "fetch"
                /\ endswith(last.log[i].a, "summon/b/1010200300.png")
    /\ (LowestIdScenario(last) /\ ~last.raised)
          => /\ last.ret = RetName(N300)
             /\ Writes(last.log) =
                    IF PageOf(last.pre, F(N301)).text = RedirectText(F(N300)) THEN <<>>
                    ELSE <<Entry("save", F(N301), RedirectText(F(N300)), TRUE)>>
             /\ pages[F(N300)] = last.pre[F(N300)]

\* C7 is met: the redirect was written and the lower-numbered name returned
C7_Witness ==
    /\ LowestIdScenario(last)
    /\ last.ret = RetName(N300)
    /\ Len(Saves(last.log)) = 1
    /\ IsRedirect(pages[F(N301)])

-----------------------------------------------------------------------------
(* SpecFetch: one fetch of a URL that answers with a given script.         *)

\* what a request can be answered with (status 0: no response at all)
Answers == {[status |-> 200, body |-> B1],
            [status |-> 404, body |-> "Not Found"],
            [status |-> 403, body |-> ""],
            [status |-> 503, body |-> ""],
            [status |-> 429, body |-> ""],
            [status |-> 0, body |-> ""]}

Scripts == UNION {[1..n -> Answers] : n \in 1..MaxScript}

InitFetch ==
    /\ pages = <<>> /\ archive = {} /\ nextRev = FirstRev /\ cache = <<>> /\ cdn = <<>>
    /\ last = NoCall /\ prev = NoCall /\ calls = 0
    /\ derive = [pc |-> "off"] /\ cmds = <<>> /\ lockHeld = FALSE /\ last_used = {} /\ drv = [pc |-> "off"]
    /\ \E script \in Scripts : fetch = [pc |-> "ready", script |-> script]

\* get_image(url)
CallGetImage ==
    /\ fetch.pc = "ready"
    /\ fetch' = [pc |-> "done", fn |-> "get_image", script |-> fetch.script,
                 result |-> get_image_script(fetch.script)]
    /\ UNCHANGED <<wikiVars, derive, lockVars, drv>>

\* download_single(session, url) of get_images_concurrent
CallDownloadSingle ==
    /\ fetch.pc = "ready"
    /\ fetch' = [pc |-> "done", fn |-> "download_single", script |-> fetch.script,
                 result |-> download_single(fetch.script)]
    /\ UNCHANGED <<wikiVars, derive, lockVars, drv>>

NextFetch == CallGetImage \/ CallDownloadSingle

SpecFetch == InitFetch /\ [][NextFetch]_vars

\* an answer after which the fetcher asks again
Retried(a) == a.status \in {0, 407, 429, 500, 502, 503, 504}

\* the requests at which a 200 arrives with only retried answers before it
GoodRequests(script) ==
    {k \in 1..(max_retries + 1) :
        /\ Answer(script, k).status = 200
        /\ \A j \in 1..(k - 1) : Retried(Answer(script, j))}

Unavailable == [status |-> 503, body |-> ""]

\* C6: a fetch succeeds exactly when a 200 arrives within the first
\* max_retries + 1 requests with only retryable answers before it, and then
\* with the digest and size of that body; 503, 503, 503, 200 takes four
\* requests and succeeds; a 404 fails after exactly one request
C6_FetchPolicy ==
    fetch.pc = "done" =>
        /\ fetch.result.success <=> GoodRequests(fetch.script) # {}
        /\ fetch.result.success =>
              \E k \in GoodRequests(fetch.script) :
                  /\ fetch.result.requests = k
                  /\ fetch.result.sha1 = sha1_hexdigest(Answer(fetch.script, k).body)
                  /\ fetch.result.size = Len(Answer(fetch.script, k).body)
        /\ fetch.script = <<Unavailable, Unavailable, Unavailable, [status |-> 200, body |-> B1]>>
              => /\ fetch.result.success
                 /\ fetch.result.requests = 4
                 /\ fetch.result.sha1 = sha1_hexdigest(B1)
                 /\ fetch.result.size = Len(B1)
        /\ fetch.script[1].status = 404
              => ~fetch.result.success /\ fetch.result.requests = 1

\* C6 is met by the script 503, 503, 503, 200
C6_Witness ==
    /\ fetch.pc = "done"
    /\ fetch.fn = "get_image"
    /\ fetch.script = <<Unavailable, Unavailable, Unavailable, [status |-> 200, body |-> B1]>>
    /\ fetch.result.success
    /\ fetch.result.requests = 4

-----------------------------------------------------------------------------
(* Task derivation of check_sp_asset.  A page is its name and the          *)
(* templates of its text, each a name and a sequence of parameters.        *)

\* an entry whose list of labels is one short of its list of suffixes
PathEntry_unlabelled(section, ext, suffix, versions, labels, categories) ==
    [section |-> section, ext |-> ext, suffix |-> suffix, versions |-> versions,
     labels |-> SubSeq(labels, 1, Len(labels) - 1), categories |-> categories]

\* one entry of a `paths` table: section -> [extension, alias suffix,
\* version suffixes, version labels, categories]
PathEntry(section, ext, suffix, versions, labels, categories) ==
    [section |-> section, ext |-> ext, suffix |-> suffix, versions |-> versions,
     labels |-> labels, categories |-> categories]

\* the table of check_weapon
WeaponPaths ==
    <<PathEntry("b", "png", "", <<"", "_02", "_03">>, <<"A", "B", "C">>,
                <<"Weapon Images", "Full Weapon Images">>),
      PathEntry("ls", "jpg", "_tall", <<"", "_02", "_03">>, <<"A", "B", "C">>,
                <<"Weapon Images", "Tall Weapon Images">>),
      PathEntry("m", "jpg", "_icon", <<"", "_02", "_03">>, <<"A", "B", "C">>,
                <<"Weapon Images", "Icon Weapon Images">>),
      PathEntry("s", "jpg", "_square", <<"", "_02", "_03">>, <<"A", "B", "C">>,
                <<"Weapon Images", "Square Weapon Images">>),
      PathEntry("wsp", "png", "_sprite", <<"", "_02", "_03">>, <<"A", "B", "C">>,
                <<"Weapon Images", "Weapon Sprites">>)>>

\* the table of check_summon
SummonPaths ==
    <<PathEntry("b", "png", "", <<"", "_02", "_03", "_04">>, <<"A", "B", "C", "D">>,
                <<"Summon Images", "Full Summon Images">>),
      PathEntry("ls", "jpg", "_tall", <<"", "_02", "_03", "_04">>, <<"A", "B", "C", "D">>,
                <<"Summon Images", "Tall Summon Images">>),
      PathEntry("m", "jpg", "_icon", <<"", "_02", "_03", "_04">>, <<"A", "B", "C", "D">>,
                <<"Summon Images", "Icon Summon Images">>),
      PathEntry("s", "jpg", "_square", <<"", "_02", "_03", "_04">>, <<"A", "B", "C", "D">>,
                <<"Summon Images", "Square Summon Images">>),
      PathEntry("party_main", "jpg", "_party_main", <<"", "_02", "_03", "_04">>,
                <<"A", "B", "C", "D">>, <<"Summon Images", "Party Main Summon Images">>),
      PathEntry("party_sub", "jpg", "_party_sub", <<"", "_02", "_03", "_04">>,
                <<"A", "B", "C", "D">>, <<"Summon Images", "Party Sub Summon Images">>),
      PathEntry("detail", "png", "_detail", <<"", "_02", "_03", "_04">>,
                <<"A", "B", "C", "D">>, <<"Summon Images", "Detail Summon Images">>)>>

\* the table of check_artifact: one version per section
ArtifactPaths ==
    <<PathEntry("hdr", "png", "", <<"">>, <<"">>,
                <<"Artifact Images", "Full Artifact Images">>),
      PathEntry("m", "jpg", "_icon", <<"">>, <<"">>,
                <<"Artifact Images", "Icon Artifact Images">>),
      PathEntry("s", "jpg", "_square", <<"">>, <<"">>,
                <<"Artifact Images", "Square Artifact Images">>)>>

\* the table of check_character
CharacterPaths ==
    <<PathEntry("zoom", "png", "",
                <<"_01", "_01_1", "_01_101", "_01_102", "_01_103", "_02", "_02_1", "_02_101", "_02_102",
                  "_02_103", "_03", "_03_1", "_03_101", "_03_102", "_03_103", "_04",
                  "_81", "_82", "_88", "_91", "_91_0", "_91_1", "_01_01", "_01_02",
                  "_01_03", "_01_04", "_01_05", "_01_06", "_02_01", "_02_02", "_02_03",
                  "_02_04", "_02_05", "_02_06", "_03_01", "_03_02", "_03_03", "_03_04",
                  "_03_05", "_03_06">>,
                <<"A", "A2", "A101", "A102", "A103", "B", "B2", "B101", "B102", "B103", "C", "C2",
                  "C101", "C102", "C103", "D", "ST", "ST2", "ST8", "EX", "EX1", "EX2",
                  "A01", "A02", "A03", "A04", "A05", "A06", "B01", "B02", "B03", "B04",
                  "B05", "B06", "C01", "C02", "C03", "C04", "C05", "C06">>,
                <<"Character Images", "Full Character Images">>),
      PathEntry("f_skin", "jpg", "_tall",
                <<"_01_s1", "_01_s2", "_01_s3", "_01_s4", "_01_s5", "_01_s6", "_01_101_s1",
                  "_01_101_s2", "_01_101_s3", "_01_101_s4", "_01_101_s5", "_01_101_s6",
                  "_01_102_s1", "_01_102_s2", "_01_102_s3", "_01_102_s4", "_01_102_s5",
                  "_01_102_s6", "_01_103_s1", "_01_103_s2", "_01_103_s3", "_01_103_s4",
                  "_01_103_s5", "_01_103_s6", "_02_s1", "_02_s2", "_02_s3", "_02_s4",
                  "_02_s5", "_02_s6", "_02_1_s1", "_02_1_s2", "_02_1_s3", "_02_1_s4",
                  "_02_1_s5", "_02_1_s6", "_02_101_s1", "_02_101_s2", "_02_101_s3",
                  "_02_101_s4", "_02_101_s5", "_02_101_s6", "_02_102_s1", "_02_102_s2",
                  "_02_102_s3", "_02_102_s4", "_02_102_s5", "_02_102_s6", "_02_103_s1",
                  "_02_103_s2", "_02_103_s3", "_02_103_s4", "_02_103_s5", "_02_103_s6",
                  "_03_s1", "_03_s2", "_03_s3", "_03_s4", "_03_s5", "_03_s6",
                  "_03_101_s1", "_03_101_s2", "_03_101_s3", "_03_101_s4", "_03_101_s5",
                  "_03_101_s6", "_03_102_s1", "_03_102_s2", "_03_102_s3", "_03_102_s4",
                  "_03_102_s5", "_03_102_s6", "_03_103_s1", "_03_103_s2", "_03_103_s3",
                  "_03_103_s4", "_03_103_s5", "_03_103_s6", "_04_s1", "_04_s2",
                  "_04_s3", "_04_s4", "_04_s5", "_04_s6", "_81_s1", "_81_s2", "_81_s3",
                  "_81_s4", "_81_s5", "_81_s6", "_82_s1", "_82_s2", "_82_s3", "_82_s4",
                  "_82_s5", "_82_s6", "_91_s1", "_91_s2", "_91_s3", "_91_s4", "_91_s5",
                  "_91_s6", "_01_01", "_01_02", "_01_03", "_01_04", "_01_05", "_01_06",
                  "_02_01", "_02_02", "_02_03", "_02_04", "_02_05", "_02_06", "_03_01",
                  "_03_02", "_03_03", "_03_04", "_03_05", "_03_06">>,
                <<"A_fire", "A_water", "A_earth", "A_wind", "A_light", "A_dark", "A101_fire",
                  "A101_water", "A101_earth", "A101_wind", "A101_light", "A101_dark",
                  "A102_fire", "A102_water", "A102_earth", "A102_wind", "A102_light",
                  "A102_dark", "A103_fire", "A103_water", "A103_earth", "A103_wind",
                  "A103_light", "A103_dark", "B_fire", "B_water", "B_earth", "B_wind",
                  "B_light", "B_dark", "B2_fire", "B2_water", "B2_earth", "B2_wind",
                  "B2_light", "B2_dark", "B101_fire", "B101_water", "B101_earth",
                  "B101_wind", "B101_light", "B101_dark", "B102_fire", "B102_water",
                  "B102_earth", "B102_wind", "B102_light", "B102_dark", "B103_fire",
                  "B103_water", "B103_earth", "B103_wind", "B103_light", "B103_dark",
                  "C_fire", "C_water", "C_earth", "C_wind", "C_light", "C_dark",
                  "C101_fire", "C101_water", "C101_earth", "C101_wind", "C101_light",
                  "C101_dark", "C102_fire", "C102_water", "C102_earth", "C102_wind",
                  "C102_light", "C102_dark", "C103_fire", "C103_water", "C103_earth",
                  "C103_wind", "C103_light", "C103_dark", "D_fire", "D_water",
                  "D_earth", "D_wind", "D_light", "D_dark", "ST_fire", "ST_water",
                  "ST_earth", "ST_wind", "ST_light", "ST_dark", "ST2_fire", "ST2_water",
                  "ST2_earth", "ST2_wind", "ST2_light", "ST2_dark", "EX_fire",
                  "EX_water", "EX_earth", "EX_wind", "EX_light", "EX_dark", "A01_fire",
                  "A01_water", "A01_earth", "A01_wind", "A01_light", "A01_dark",
                  "A02_fire", "A02_water", "A02_earth", "A02_wind", "A02_light",
                  "A02_dark", "A03_fire", "A03_water", "A03_earth", "A03_wind",
                  "A03_light", "A03_dark">>,
                <<"Character Images", "Tall Skin Character Images">>),
      PathEntry("f", "jpg", "_tall",
                <<"_01", "_01_1", "_01_101", "_01_102", "_01_103", "_02", "_02_1", "_02_101", "_02_102",
                  "_02_103", "_03", "_03_1", "_03_101", "_03_102", "_03_103", "_04",
                  "_81", "_82", "_91", "_91_0", "_91_1", "_01_01", "_01_02", "_01_03",
                  "_01_04", "_01_05", "_01_06", "_02_01", "_02_02", "_02_03", "_02_04",
                  "_02_05", "_02_06", "_03_01", "_03_02", "_03_03", "_03_04", "_03_05",
                  "_03_06">>,
                <<"A", "A2", "A101", "A102", "A103", "B", "B2", "B101", "B102", "B103", "C", "C2",
                  "C101", "C102", "C103", "D", "ST", "ST2", "EX", "EX1", "EX2", "A01",
                  "A02", "A03", "A04", "A05", "A06", "B01", "B02", "B03", "B04", "B05",
                  "B06", "C01", "C02", "C03", "C04", "C05", "C06">>,
                <<"Character Images", "Tall Character Images">>),
      PathEntry("m", "jpg", "_icon",
                <<"_01", "_01_1", "_01_101", "_01_102", "_01_103", "_02", "_02_1", "_02_101", "_02_102",
                  "_02_103", "_03", "_03_1", "_03_101", "_03_102", "_03_103", "_04",
                  "_81", "_82", "_88", "_91", "_91_0", "_91_1", "_01_01", "_01_02",
                  "_01_03", "_01_04", "_01_05", "_01_06", "_02_01", "_02_02", "_02_03",
                  "_02_04", "_02_05", "_02_06", "_03_01", "_03_02", "_03_03", "_03_04",
                  "_03_05", "_03_06">>,
                <<"A", "A2", "A101", "A102", "A103", "B", "B2", "B101", "B102", "B103", "C", "C2",
                  "C101", "C102", "C103", "D", "ST", "ST2", "ST8", "EX", "EX1", "EX2",
                  "A01", "A02", "A03", "A04", "A05", "A06", "B01", "B02", "B03", "B04",
                  "B05", "B06", "C01", "C02", "C03", "C04", "C05", "C06">>,
                <<"Character Images", "Icon Character Images">>),
      PathEntry("s", "jpg", "_square",
                <<"_01", "_01_1", "_01_101", "_01_102", "_01_103", "_02", "_02_1", "_02_101", "_02_102",
                  "_02_103", "_03", "_03_1", "_03_101", "_03_102", "_03_103", "_04",
                  "_81", "_82", "_88", "_91", "_91_0", "_91_1", "_01_01", "_01_02",
                  "_01_03", "_01_04", "_01_05", "_01_06", "_02_01", "_02_02", "_02_03",
                  "_02_04", "_02_05", "_02_06", "_03_01", "_03_02", "_03_03", "_03_04",
                  "_03_05", "_03_06">>,
                <<"A", "A2", "A101", "A102", "A103", "B", "B2", "B101", "B102", "B103", "C", "C2",
                  "C101", "C102", "C103", "D", "ST", "ST2", "ST8", "EX", "EX1", "EX2",
                  "A01", "A02", "A03", "A04", "A05", "A06", "B01", "B02", "B03", "B04",
                  "B05", "B06", "C01", "C02", "C03", "C04", "C05", "C06">>,
                <<"Character Images", "Square Character Images">>),
      PathEntry("sd", "png", "_SD",
                <<"_01", "_01_1", "_01_101", "_01_102", "_01_103", "_02", "_02_1", "_02_101", "_02_102",
                  "_02_103", "_03", "_03_1", "_03_101", "_03_102", "_03_103", "_04",
                  "_81", "_82", "_91", "_91_0", "_91_1">>,
                <<"A", "A2", "A101", "A102", "A103", "B", "B2", "B101", "B102", "B103", "C", "C2",
                  "C101", "C102", "C103", "D", "ST", "ST2", "EX", "EX1", "EX2">>,
                <<"Character Images", "Sprite Character Images">>),
      PathEntry("cutin_special", "jpg", "_cutin",
                <<"_01", "_01_1", "_01_101", "_01_102", "_01_103", "_02", "_02_1", "_02_101", "_02_102",
                  "_02_103", "_03", "_03_1", "_03_101", "_03_102", "_03_103", "_04",
                  "_81", "_82", "_91", "_91_0", "_91_1">>,
                <<"A", "A2", "A101", "A102", "A103", "B", "B2", "B101", "B102", "B103", "C", "C2",
                  "C101", "C102", "C103", "D", "ST", "ST2", "EX", "EX1", "EX2">>,
                <<"Character Images", "Cutin Character Images">>),
      PathEntry("raid_chain", "jpg", "_chain",
                <<"_01", "_01_1", "_01_101", "_01_102", "_01_103", "_02", "_02_1", "_02_101", "_02_102",
                  "_02_103", "_03", "_03_1", "_03_101", "_03_102", "_03_103", "_04",
                  "_81", "_82", "_91", "_91_0", "_91_1">>,
                <<"A", "A2", "A101", "A102", "A103", "B", "B2", "B101", "B102", "B103", "C", "C2",
                  "C101", "C102", "C103", "D", "ST", "ST2", "EX", "EX1", "EX2">>,
                <<"Character Images", "Chain Burst Character Images">>),
      PathEntry("t", "png", "_babyl",
                <<"_01", "_01_1", "_01_101", "_01_102", "_01_103", "_02", "_02_1", "_02_101", "_02_102",
                  "_02_103", "_03", "_03_1", "_03_101", "_03_102", "_03_103", "_04",
                  "_81", "_82", "_91", "_91_0", "_91_1">>,
                <<"A", "A2", "A101", "A102", "A103", "B", "B2", "B101", "B102", "B103", "C", "C2",
                  "C101", "C102", "C103", "D", "ST", "ST2", "EX", "EX1", "EX2">>,
                <<"Character Images", "Babyl Character Images">>),
      PathEntry("detail", "png", "_detail",
                <<"_01", "_01_1", "_01_101", "_01_102", "_01_103", "_02", "_02_1", "_02_101", "_02_102",
                  "_02_103", "_03", "_03_1", "_03_101", "_03_102", "_03_103", "_04",
                  "_81", "_82", "_91", "_91_0", "_91_1">>,
                <<"A", "A2", "A101", "A102", "A103", "B", "B2", "B101", "B102", "B103", "C", "C2",
                  "C101", "C102", "C103", "D", "ST", "ST2", "EX", "EX1", "EX2">>,
                <<"Character Images", "Detail Character Images">>),
      PathEntry("raid_normal", "jpg", "_raid",
                <<"_01", "_01_1", "_01_101", "_01_102", "_01_103", "_02", "_02_1", "_02_101", "_02_102",
                  "_02_103", "_03", "_03_1", "_03_101", "_03_102", "_03_103", "_04",
                  "_81", "_82", "_91", "_91_0", "_91_1">>,
                <<"A", "A2", "A101", "A102", "A103", "B", "B2", "B101", "B102", "B103", "C", "C2",
                  "C101", "C102", "C103", "D", "ST", "ST2", "EX", "EX1", "EX2">>,
                <<"Character Images", "Raid Character Images">>),
      PathEntry("quest", "jpg", "_quest",
                <<"_01", "_01_1", "_01_101", "_01_102", "_01_103", "_02", "_02_1", "_02_101", "_02_102",
                  "_02_103", "_03", "_03_1", "_03_101", "_03_102", "_03_103", "_04",
                  "_81", "_82", "_91", "_91_0", "_91_1">>,
                <<"A", "A2", "A101", "A102", "A103", "B", "B2", "B101", "B102", "B103", "C", "C2",
                  "C101", "C102", "C103", "D", "ST", "ST2", "EX", "EX1", "EX2">>,
                <<"Character Images", "Quest Character Images">>)>>

\* the table of check_npc
NpcPaths ==
    <<PathEntry("zoom", "png", "",
                <<"_01">>,
                <<"">>,
                <<"NPC Images", "Full NPC Images">>),
      PathEntry("m", "jpg", "_icon",
                <<"_01">>,
                <<"">>,
                <<"NPC Images", "Icon NPC Images">>)>>

\* the table of check_rucksack
RucksackPaths ==
    <<PathEntry("base", "png", "",
                <<"">>,
                <<"">>,
                <<"Rucksack Battles Images", "Base Rucksack Battles Images">>)>>

AssetsUrl == "http://prd-game-a-granbluefantasy.akamaized.net/assets_en/"

AlnumSet == LowerSet \cup UpperSet \cup DigitSet \cup {"_"}

\* re.match(r'^{{{id\|([A-Za-z0-9_]+)}}}', asset_id): group 1 on a match,
\* else the value itself
id_value(v) ==
    IF /\ startswith(v, "{{{id|")
       /\ span(drop(v, 6), AlnumSet) >= 1
       /\ startswith(drop(v, 6 + span(drop(v, 6), AlnumSet)), "}}}")
    THEN SubSeq(v, 7, 6 + span(drop(v, 6), AlnumSet))
    ELSE v

RECURSIVE asset_ids(_)
\* the ids collected from the 'id' parameters of a template
asset_ids(params) ==
    IF params = <<>> THEN <<>>
    ELSE (IF strip(Head(params).name) = "id" THEN <<id_value(strip(Head(params).value))>>
          ELSE <<>>) \o asset_ids(Tail(params))

RECURSIVE strip_code(_)
\* mwparserfromhell's strip_code on text whose only markup is bold/italic quotes
strip_code(v) ==
    IF v = "" THEN ""
    ELSE IF startswith(v, "''") THEN strip_code(drop(v, 2))
    ELSE Head(v) \o strip_code(Tail(v))

RECURSIVE weapon_type(_, _, _)
\* the weapon type left by the 'weapon' parameters of a template ("" for None)
weapon_type(params, asset_type, sofar) ==
    IF params = <<>> THEN sofar
    ELSE weapon_type(Tail(params), asset_type,
             IF /\ strip(Head(params).name) # "id"
                /\ asset_type = "weapon"
                /\ strip(Head(params).name) = "weapon"
                /\ lower(strip(strip_code(strip(Head(params).value)))) # ""
             THEN lower(strip(strip_code(strip(Head(params).value))))
             ELSE sofar)

\* one task of the melee branch
melee_task(asset_type, asset_name, asset_id, params, suffix, label) ==
    [url |-> AssetsUrl \o "img/sp/cjs/" \o asset_id \o suffix \o "." \o params.ext,
     true_name |-> capitalize(asset_type) \o " sp " \o asset_id \o " " \o label \o "." \o params.ext,
     other_names |-> <<asset_name \o " sprite" \o label \o "." \o params.ext>>,
     categories |-> params.categories]

\* the URL of one version of a section
version_url(asset_type, asset_id, params, version) ==
    IF params.section = "wsp"
    THEN AssetsUrl \o "img/sp/cjs/" \o asset_id \o params.versions[version] \o "." \o params.ext
    ELSE AssetsUrl \o "img/sp/assets/" \o asset_type \o "/"
             \o (IF params.section = "f_skin" THEN "f/skin" ELSE params.section)
             \o "/" \o asset_id \o params.versions[version] \o "." \o params.ext

\* aliases for the primary version and for a lone version, none otherwise
version_other_names_primary_only(asset_name, params, version) ==
    IF Len(params.versions) < 2
    THEN <<asset_name \o params.suffix \o "." \o params.ext>>
    ELSE IF params.labels[version] = "A"
    THEN <<asset_name \o params.suffix \o "." \o params.ext,
           asset_name \o params.suffix \o (IF params.suffix = "" THEN " " ELSE "")
               \o params.labels[version] \o "." \o params.ext>>
    ELSE <<>>

\* the aliases of one version of a section
version_other_names(asset_name, params, version) ==
    (IF Len(params.versions) < 2 \/ params.labels[version] = "A"
     THEN <<asset_name \o params.suffix \o "." \o params.ext>>
     ELSE <<>>)
    \o
    (IF Len(params.versions) > 1
     THEN <<asset_name \o params.suffix
                \o (IF params.suffix = "" /\ params.labels[version] # "" THEN " " ELSE "")
                \o params.labels[version] \o "." \o params.ext>>
     ELSE <<>>)

\* one task of the generic loop over versions
version_task(asset_type, asset_name, asset_id, params, version) ==
    [url |-> version_url(asset_type, asset_id, params, version),
     true_name |-> capitalize(asset_type) \o " "
                      \o (IF params.section = "wsp" THEN "sp" ELSE params.section)
                      \o " " \o asset_id \o params.versions[version] \o "." \o params.ext,
     other_names |-> version_other_names(asset_name, params, version),
     categories |-> params.categories]

\* the tasks of a section when the melee branch falls through to the
\* generic loop
section_tasks_fall_through(asset_type, asset_name, asset_id, params, wtype) ==
    (IF params.section = "wsp" /\ asset_type = "weapon" /\ wtype = "melee"
     THEN <<melee_task(asset_type, asset_name, asset_id, params, "_1", "1"),
            melee_task(asset_type, asset_name, asset_id, params, "_2", "2")>>
     ELSE <<>>)
    \o [version \in 1..Len(params.versions) |->
            version_task(asset_type, asset_name, asset_id, params, version)]

\* the tasks of one section for one id
section_tasks(asset_type, asset_name, asset_id, params, wtype) ==
    IF params.section = "wsp" /\ asset_type = "weapon" /\ wtype = "melee"
    THEN <<melee_task(asset_type, asset_name, asset_id, params, "_1", "1"),
           melee_task(asset_type, asset_name, asset_id, params, "_2", "2")>>
    ELSE [version \in 1..Len(params.versions) |->
              version_task(asset_type, asset_name, asset_id, params, version)]

RECURSIVE id_tasks(_, _, _, _, _)
\* "for section, params in paths.items()" for one id
id_tasks(asset_type, asset_name, asset_id, paths, wtype) ==
    IF paths = <<>> THEN <<>>
    ELSE section_tasks(asset_type, asset_name, asset_id, Head(paths), wtype)
             \o id_tasks(asset_type, asset_name, asset_id, Tail(paths), wtype)

RECURSIVE template_tasks(_, _, _, _, _)
\* "for asset_id in asset_ids" for one template
template_tasks(asset_type, asset_name, ids, paths, wtype) ==
    IF ids = <<>> THEN <<>>
    ELSE id_tasks(asset_type, asset_name, Head(ids), paths, wtype)
             \o template_tasks(asset_type, asset_name, Tail(ids), paths, wtype)

\* s.partition(c)[0]
partition_head(s, c) == IF contains(s, c) THEN SubSeq(s, 1, (CHOOSE i \in 1..Len(s) :
                            Ch(s, i) = c /\ \A j \in 1..(i - 1) : Ch(s, j) # c) - 1)
                        ELSE s

\* s.rsplit(' ', 1)[0]
rsplit_head(s) == IF contains(s, " ") THEN SubSeq(s, 1, (CHOOSE i \in 1..Len(s) :
                      Ch(s, i) = " " /\ \A j \in (i + 1)..Len(s) : Ch(s, j) # " ") - 1)
                  ELSE s

element_names == {"Incendo", "Aqua", "Terra", "Ventus", "Lumen", "Nyx"}

\* the page a variant inherits its templates from
base_name(asset_name, check_inherit) ==
    IF check_inherit /\ \E x \in element_names : contains(asset_name, x)
    THEN rsplit_head(asset_name) \o " (Element)"
    ELSE IF check_inherit /\ contains(asset_name, "(")
    THEN strip(partition_head(asset_name, "("))
    ELSE "unknown"

\* the templates check_sp_asset reads
IsAssetTemplate(template, asset_template, base) ==
    \/ strip(template.name) = asset_template
    \/ startswith(strip(template.name), "Weapon/Common/")
    \/ strip(template.name) = ":" \o base

RECURSIVE download_tasks(_, _, _, _, _, _)
\* the list download_tasks check_sp_asset builds from the templates
download_tasks(templates, asset_name, asset_type, asset_template, paths, base) ==
    IF templates = <<>> THEN <<>>
    ELSE (IF IsAssetTemplate(Head(templates), asset_template, base)
          THEN template_tasks(asset_type, asset_name, asset_ids(Head(templates).params), paths,
                              weapon_type(Head(templates).params, asset_type, ""))
          ELSE <<>>)
         \o download_tasks(Tail(templates), asset_name, asset_type, asset_template, paths, base)

\* check_weapon(page) up to the download
weapon_tasks(page) ==
    download_tasks(page.templates, page.name, "weapon", "Weapon", WeaponPaths,
                   base_name(page.name, TRUE))

\* check_summon(page) up to the download
summon_tasks(page) ==
    download_tasks(page.templates, page.name, "summon", "Summon", SummonPaths,
                   base_name(page.name, FALSE))

\* check_character(page) up to the download
character_tasks(page) ==
    download_tasks(page.templates, page.name, "npc", "Character", CharacterPaths,
                   base_name(page.name, FALSE))

\* check_artifact(page) up to the download
artifact_tasks(page) ==
    download_tasks(page.templates, page.name, "artifact", "Artifact", ArtifactPaths,
                   base_name(page.name, FALSE))

-----------------------------------------------------------------------------
(* check_skin and check_sp_skin_asset: the images of an outfit page.  The  *)
(* table has neither a 'wsp' nor an 'f_skin' section, so every URL is      *)
(* built by the last branch.                                               *)

\* the table of check_skin
SkinPaths ==
    LET v == <<"_01", "_01_0", "_01_1", "_81", "_82">>
        l == <<"A", "A0", "A1", "ST", "ST2">>
    IN  <<PathEntry("zoom", "png", "", v, l, <<"Outfit Images", "Full Outfit Images">>),
          PathEntry("sd", "png", "_SD", v, l, <<"Outfit Images", "Sprite Outfit Images">>),
          PathEntry("f", "jpg", "_tall", v, l, <<"Outfit Images", "Tall Outfit Images">>),
          PathEntry("m", "jpg", "_icon", v, l, <<"Outfit Images", "Icon Outfit Images">>),
          PathEntry("s", "jpg", "_square", v, l, <<"Outfit Images", "Square Outfit Images">>),
          PathEntry("skin", "png", "_skin", v, l, <<"Outfit Images", "Skin Outfit Images">>),
          PathEntry("detail", "png", "_detail", v, l,
                    <<"Outfit Images", "Detail Outfit Character Images">>),
          PathEntry("t", "png", "_babyl", v, l,
                    <<"Outfit Images", "Babyl Outfit Character Images">>),
          PathEntry("raid_normal", "jpg", "_raid", v, l,
                    <<"Outfit Images", "Raid Outfit Character Images">>),
          PathEntry("cutin_special", "jpg", "_cutin", v, l,
                    <<"Outfit Images", "Cutin Outfit Character Images">>),
          PathEntry("raid_chain", "jpg", "_chain", v, l,
                    <<"Outfit Images", "Chain Burst Outfit Character Images">>),
          PathEntry("quest", "jpg", "_quest", v, l,
                    <<"Outfit Images", "Quest Outfit Character Images">>),
          PathEntry("qm", "png", "_qm", v, l,
                    <<"Outfit Images", "QM Outfit Character Images">>)>>

RECURSIVE skin_names(_, _)
\* asset_name and base_name after the parameters of a template: 'desc'
\* assigns asset_name, 'char' assigns base_name
skin_names(params, names) ==
    IF params = <<>> THEN names
    ELSE skin_names(Tail(params),
             IF strip(Head(params).name) = "char"
             THEN [names EXCEPT !.base_name = strip(Head(params).value)]
             ELSE IF strip(Head(params).name) = "desc"
             THEN [names EXCEPT !.asset_name = strip(Head(params).value)]
             ELSE names)

\* the image of one version of a section: its URL, its name, its aliases
skin_task(asset_type, names, asset_id, params, version) ==
    [url |-> AssetsUrl \o "img/sp/assets/" \o asset_type \o "/" \o params.section \o "/"
                \o asset_id \o params.versions[version] \o "." \o params.ext,
     true_name |-> capitalize(asset_type) \o " " \o params.section \o " " \o asset_id
                      \o params.versions[version] \o "." \o params.ext,
     other_names |->
        (IF Len(params.versions) < 2 \/ params.labels[version] = "A"
         THEN <<names.asset_name \o "_(" \o names.base_name \o ")" \o params.suffix
                    \o "." \o params.ext>>
         ELSE <<>>)
        \o
        (IF Len(params.versions) > 1
         THEN <<names.asset_name \o "_(" \o names.base_name \o ")" \o params.suffix
                    \o (IF params.suffix = "" THEN " " ELSE "") \o params.labels[version]
                    \o "." \o params.ext>>
         ELSE <<>>),
     categories |-> params.categories]

RECURSIVE skin_id_tasks(_, _, _, _, _)
\* "for asset_id in asset_ids: for section, params in paths.items(): while
\* version < versions", paths being the sections left for the first id
skin_id_tasks(asset_type, names, ids, paths, all_paths) ==
    IF ids = <<>> THEN <<>>
    ELSE IF paths = <<>> THEN skin_id_tasks(asset_type, names, Tail(ids), all_paths, all_paths)
    ELSE [version \in 1..Len(Head(paths).versions) |->
              skin_task(asset_type, names, Head(ids), Head(paths), version)]
         \o skin_id_tasks(asset_type, names, ids, Tail(paths), all_paths)

RECURSIVE skin_template_tasks(_, _, _, _, _)
\* "for template in templates" of check_sp_skin_asset: asset_name and
\* base_name are set before the loop and carried from template to template
skin_template_tasks(templates, names, asset_type, asset_template, paths) ==
    IF templates = <<>> THEN <<>>
    ELSE IF ~IsAssetTemplate(Head(templates), asset_template, names.base_name)
    THEN skin_template_tasks(Tail(templates), names, asset_type, asset_template, paths)
    ELSE skin_id_tasks(asset_type, skin_names(Head(templates).params, names),
                       asset_ids(Head(templates).params), paths, paths)
         \o skin_template_tasks(Tail(templates), skin_names(Head(templates).params, names),
                                asset_type, asset_template, paths)

\* check_skin(page): the images it fetches, in order
skin_tasks(page) ==
    skin_template_tasks(page.templates, [asset_name |-> page.name, base_name |-> "MC"],
                        "npc", "CharSkin", SkinPaths)

-----------------------------------------------------------------------------
(* SpecDerive: the tasks derived from a page.                              *)

Param(name, value) == [name |-> name, value |-> value]
Template(name, params) == [name |-> name, params |-> params]

\* the templates a page is built from
PageTemplates ==
    {Template("Weapon", <<Param("id", "1040000000"), Param("weapon", "melee")>>),
     Template("Weapon ", <<Param(" weapon ", " '''Melee''' "), Param("id ", "{{{id|1040000100}}}")>>),
     Template("Weapon", <<Param("id", "1040000200"), Param("weapon", "sabre")>>),
     Template("Weapon", <<Param("name", "Sword"), Param("id", "1040000300")>>),
     Template("Weapon", <<Param("id", "1040000400"), Param("id", "1040000500"),
                          Param("weapon", "Melee"), Param("weapon", "")>>),
     Template("Summon", <<Param("id", "2040000000")>>),
     Template(":Sword", <<Param("id", "1040000600"), Param("weapon", "melee")>>),
     Template("Weapon/Common/Base", <<Param("id", "1040000700")>>),
     Template("Infobox", <<Param("id", "1040000800"), Param("weapon", "melee")>>),
     Template("Artifact", <<Param("id", "5010000000")>>),
     Template("Character", <<Param("id", "3040000000")>>),
     Template("CharSkin", <<Param("id", "3710000000")>>),
     Template("CharSkin", <<Param("id", "3710001000"), Param("char", "Djeeta"),
                            Param("desc", "Summer")>>)}

PageNames == {"Sword", "Sword (Grand)", "Sword Terra"}

\* the most templates on a page
MaxTemplates == 2

Pages == {[name |-> n, templates |-> t] :
             n \in PageNames, t \in UNION {[1..k -> PageTemplates] : k \in 1..MaxTemplates}}

InitDerive ==
    /\ pages = <<>> /\ archive = {} /\ nextRev = FirstRev /\ cache = <<>> /\ cdn = <<>>
    /\ last = NoCall /\ prev = NoCall /\ calls = 0
    /\ fetch = [pc |-> "off"] /\ cmds = <<>> /\ lockHeld = FALSE /\ last_used = {} /\ drv = [pc |-> "off"]
    /\ \E page \in Pages : derive = [pc |-> "page", page |-> page]

\* check_weapon(page): the tasks it downloads
DeriveWeapon ==
    /\ derive.pc = "page"
    /\ derive' = [pc |-> "derived", page |-> derive.page, asset_type |-> "weapon",
                  tasks |-> weapon_tasks(derive.page)]
    /\ UNCHANGED <<wikiVars, fetch, lockVars, drv>>

\* check_summon(page): the tasks it downloads
DeriveSummon ==
    /\ derive.pc = "page"
    /\ derive' = [pc |-> "derived", page |-> derive.page, asset_type |-> "summon",
                  tasks |-> summon_tasks(derive.page)]
    /\ UNCHANGED <<wikiVars, fetch, lockVars, drv>>

\* check_skin(page): the images it fetches
DeriveSkin ==
    /\ derive.pc = "page"
    /\ derive' = [pc |-> "derived", page |-> derive.page, asset_type |-> "npc",
                  tasks |-> skin_tasks(derive.page)]
    /\ UNCHANGED <<wikiVars, fetch, lockVars, drv>>

\* check_artifact(page): the tasks it downloads
DeriveArtifact ==
    /\ derive.pc = "page"
    /\ derive' = [pc |-> "derived", page |-> derive.page, asset_type |-> "artifact",
                  tasks |-> artifact_tasks(derive.page)]
    /\ UNCHANGED <<wikiVars, fetch, lockVars, drv>>

\* check_character(page), the upload of a page of type 'character': the
\* tasks it downloads (their asset type is 'npc')
DeriveCharacter ==
    /\ derive.pc = "page"
    /\ derive' = [pc |-> "derived", page |-> derive.page, asset_type |-> "character",
                  tasks |-> character_tasks(derive.page)]
    /\ UNCHANGED <<wikiVars, fetch, lockVars, drv>>

NextDerive ==
    DeriveWeapon \/ DeriveSummon \/ DeriveSkin \/ DeriveArtifact \/ DeriveCharacter

SpecDerive == InitDerive /\ [][NextDerive]_vars

\* the values of the parameters of a template called `name`
ParamValues(template, name) ==
    {template.params[j].value : j \in {k \in 1..Len(template.params) :
                                          strip(template.params[k].name) = name}}

\* the Weapon templates with one id and a 'weapon' parameter equal to 'melee'
MeleeTemplates(page) ==
    {i \in 1..Len(page.templates) :
        /\ strip(page.templates[i].name) = "Weapon"
        /\ Cardinality(ParamValues(page.templates[i], "id")) = 1
        /\ ParamValues(page.templates[i], "weapon") = {"melee"}}

\* the templates of the page that carry the id
Carriers(page, id) ==
    {i \in 1..Len(page.templates) : id \in ParamValues(page.templates[i], "id")}

TasksWith(tasks, url) == {k \in 1..Len(tasks) : tasks[k].url = url}

CjsUrl(id, suffix) == AssetsUrl \o "img/sp/cjs/" \o id \o suffix \o ".png"

\* C8: for a Weapon template with an id and weapon = melee, the sprite
\* section gives exactly the two tasks cjs/<id>_1.png named
\* 'Weapon sp <id> 1.png' and cjs/<id>_2.png named 'Weapon sp <id> 2.png',
\* and no task for cjs/<id>.png, cjs/<id>_02.png or cjs/<id>_03.png
C8_MeleeSprites ==
    (derive.pc = "derived" /\ derive.asset_type = "weapon") =>
        \A i \in MeleeTemplates(derive.page) :
            \A id \in ParamValues(derive.page.templates[i], "id") :
                Carriers(derive.page, id) \subseteq MeleeTemplates(derive.page) =>
                    /\ Cardinality(TasksWith(derive.tasks, CjsUrl(id, "_1")))
                          = Cardinality(Carriers(derive.page, id))
                    /\ Cardinality(TasksWith(derive.tasks, CjsUrl(id, "_2")))
                          = Cardinality(Carriers(derive.page, id))
                    /\ \A k \in TasksWith(derive.tasks, CjsUrl(id, "_1")) :
                          derive.tasks[k].true_name = "Weapon sp " \o id \o " 1.png"
                    /\ \A k \in TasksWith(derive.tasks, CjsUrl(id, "_2")) :
                          derive.tasks[k].true_name = "Weapon sp " \o id \o " 2.png"
                    /\ \A k \in 1..Len(derive.tasks) :
                          (contains(derive.tasks[k].url, "/cjs/" \o id)
                             \/ contains(derive.tasks[k].true_name, " sp " \o id))
                          => derive.tasks[k].url \in {CjsUrl(id, "_1"), CjsUrl(id, "_2")}

\* C8 is met by a page with one melee weapon template
C8_Witness ==
    /\ derive.pc = "derived" /\ derive.asset_type = "weapon"
    /\ MeleeTemplates(derive.page) = {1}
    /\ Len(derive.page.templates) = 1
    /\ Cardinality({k \in 1..Len(derive.tasks) : contains(derive.tasks[k].url, "/cjs/")}) = 2
    /\ Len(derive.tasks) = 14

-----------------------------------------------------------------------------
(* SpecLock: the slash-command handlers of main.py on the bot's event      *)
(* loop.  A handler runs without interruption from one await to the next.  *)

Commands == {"imgupload", "statusupload", "bannerupload", "drawupdate", "itemupload",
             "eventupload", "enemyupload"}

Users == {"user 1", "user 2"}

\* the most invocations followed
MaxCommands == 2

InitLock ==
    /\ pages = <<>> /\ archive = {} /\ nextRev = FirstRev /\ cache = <<>> /\ cdn = <<>>
    /\ last = NoCall /\ prev = NoCall /\ calls = 0
    /\ fetch = [pc |-> "off"] /\ derive = [pc |-> "off"] /\ drv = [pc |-> "off"]
    /\ cmds = <<>> /\ lockHeld = FALSE /\ last_used = {}

\* the uploads that are executing
Running == {i \in 1..Len(cmds) : cmds[i].pc = "running"}

\* a command handler from its start to its first await: the cooldown check,
\* "if upload_lock.locked(): ... return", "async with upload_lock:" and the
\* call of send_message
Invoke ==
    /\ Len(cmds) < MaxCommands
    /\ \E user \in Users, command \in Commands :
          LET pc == IF user \in last_used THEN "cooldown"
                    ELSE IF lockHeld THEN "rejected"
                    ELSE "send_message"
          IN  /\ cmds' = Append(cmds, [user |-> user, command |-> command, pc |-> pc,
                                       busy |-> Running # {}])
              /\ last_used' = last_used \cup {user}
              /\ lockHeld' = (lockHeld \/ pc = "send_message")
    /\ UNCHANGED <<wikiVars, fetch, derive, drv>>

\* COOLDOWN_SECONDS have passed since the user's last command
CooldownOver ==
    /\ \E user \in last_used : last_used' = last_used \ {user}
    /\ UNCHANGED <<wikiVars, fetch, derive, drv, cmds, lockHeld>>

\* "await interaction.response.send_message(...)" returns, inside the lock
SendMessage ==
    /\ \E i \in 1..Len(cmds) :
          /\ cmds[i].pc = "send_message"
          /\ cmds' = [cmds EXCEPT ![i].pc = "original_response"]
    /\ UNCHANGED <<wikiVars, fetch, derive, drv, lockHeld, last_used>>

\* "msg = await interaction.original_response()" returns: the "async with"
\* block ends, the lock is released, and the handler goes on to
\* "await run_wiki_upload(...)" (run_status_upload, ...)
OriginalResponse ==
    /\ \E i \in 1..Len(cmds) :
          /\ cmds[i].pc = "original_response"
          /\ cmds' = [cmds EXCEPT ![i].pc = "running"]
    /\ lockHeld' = FALSE
    /\ UNCHANGED <<wikiVars, fetch, derive, drv, last_used>>

\* the upload returns and the handler edits its message
UploadReturns ==
    /\ \E i \in 1..Len(cmds) :
          /\ cmds[i].pc = "running"
          /\ cmds' = [cmds EXCEPT ![i].pc = "done"]
    /\ UNCHANGED <<wikiVars, fetch, derive, drv, lockHeld, last_used>>

NextLock == Invoke \/ CooldownOver \/ SendMessage \/ OriginalResponse \/ UploadReturns

SpecLock == InitLock /\ [][NextLock]_vars

\* C9: at most one upload is executing at any moment, and a command that
\* arrived while an upload was running was rejected
C9_OneUploadAtATime ==
    /\ Cardinality(Running) <= 1
    /\ \A i \in 1..Len(cmds) : cmds[i].busy => cmds[i].pc \in {"rejected", "cooldown"}

-----------------------------------------------------------------------------
(* Spec: one run of run_wiki_upload.upload_task on a summon page, through  *)
(* check_summon and the download and processing loops of check_sp_asset.   *)

\* "for other_name in task['other_names']: self.check_file_redirect(...)"
RECURSIVE redirect_other_names(_, _, _)
redirect_other_names(w, true_name, other_names) ==
    IF other_names = <<>> \/ w.raised THEN w
    ELSE redirect_other_names(
             check_file_redirect(Called(w, "check_file_redirect", Head(other_names)),
                                 true_name, Head(other_names)),
             true_name, Tail(other_names))

\* task['true_name'] after "task['true_name'] = check_image_result"
final_name(w, task) == IF w.ret.kind = "name" THEN w.ret.name ELSE task.true_name

\* an iteration that leaves the double redirects to the end of the batch
maintain_without_collapse(w, task) ==
    IF w.raised \/ w.ret = RetFalse THEN w
    ELSE redirect_other_names(
             check_image_categories(Called(w, "check_image_categories", final_name(w, task)),
                                    final_name(w, task), task.categories),
             final_name(w, task), task.other_names)

\* what follows check_image in an iteration: nothing after "continue",
\* else the categories, the redirects of the aliases and the double
\* redirects of the final name
maintain(w, task) ==
    IF w.raised \/ w.ret = RetFalse THEN w
    ELSE check_file_double_redirect(
             Called(redirect_other_names(
                        check_image_categories(
                            Called(w, "check_image_categories", final_name(w, task)),
                            final_name(w, task), task.categories),
                        final_name(w, task), task.other_names),
                    "check_file_double_redirect", final_name(w, task)),
             final_name(w, task))

\* one iteration of a processing loop for a downloaded image r
process_task(w, task, r) ==
    maintain(check_image(Called(w, "check_image", task.true_name),
                         task.true_name, r.sha1, r.size, r.io, task.other_names), task)

\* the index of the next downloaded image after i (0 when there is none)
NextSuccess(results, i) ==
    IF \E j \in (i + 1)..Len(results) : results[j].success
    THEN CHOOSE j \in (i + 1)..Len(results) :
             results[j].success /\ \A k \in (i + 1)..(j - 1) : ~results[k].success
    ELSE 0

\* the status dict of the command handler
NoStatus == [stage |-> "starting", successful |-> 0, failed |-> 0, total |-> 0, processed |-> 0,
             current_image |-> "", uploaded |-> 0, duplicates |-> 0, total_urls |-> 0]

SummonPage == [name |-> "Bahamut",
               templates |-> <<Template("Summon", <<Param("id", "1010200301")>>)>>]

\* a page without a Summon template: check_sp_asset derives no task
OtherPage == [name |-> "Bahamut",
              templates |-> <<Template("Character", <<Param("id", "3040000000")>>)>>]

DriverPages == {SummonPage, OtherPage}

Url1 == AssetsUrl \o "img/sp/assets/summon/b/1010200301.png"
Url2 == AssetsUrl \o "img/sp/assets/summon/b/1010200301_02.png"

Ok(body) == <<[status |-> 200, body |-> body]>>

\* the images the CDN serves; every other URL answers 404
DriverCdns == {Url1 :> Ok(B1),
               (Url1 :> Ok(B1)) @@ (Url2 :> Ok(B2)),
               (Url1 :> Ok(B1)) @@ (Url2 :> Ok(B2)) @@ (LowUrl :> Ok(B1))}

DriverDups == {{}, {N300}, {N301}, {N301, Old}}
DriverChainEnds == {N301, Alias, "Bahamut A.png"}

\* the faults injected into one iteration
DriverFaults == {NoFault, WriteFault(1, max_attempts + 1),
                 [kind |-> "search", at |-> 0, n |-> 0, code |-> ""]}

Init ==
    /\ \E dup \in DriverDups, other \in OtherPlacements, len \in 0..MaxChain,
          end_ \in DriverChainEnds :
          /\ len = 0 => end_ = N301
          /\ pages = InitialPages(dup, other, len, end_)
    /\ archive = {}
    /\ nextRev = FirstRev
    /\ cache = <<>>
    /\ cdn \in DriverCdns
    /\ last = NoCall /\ prev = NoCall /\ calls = 0
    /\ fetch = [pc |-> "off"] /\ derive = [pc |-> "off"]
    /\ cmds = <<>> /\ lockHeld = FALSE /\ last_used = {}
    /\ \E page \in DriverPages, dry \in BOOLEAN :
          drv = [pc |-> "start", page |-> page, tasks |-> <<>>, results |-> <<>>, i |-> 0,
                 images_processed |-> 0, images_uploaded |-> 0, images_duplicate |-> 0,
                 images_failed |-> 0, status |-> NoStatus, events |-> <<>>, return_code |-> -1,
                 tried |-> {}, raised |-> {}, maintained |-> {},
                 dry |-> dry, reports |-> <<>>, writes |-> 0, noops |-> 0,
                 downloaded |-> 0, trace |-> <<>>, rets |-> <<>>]

driverFrame == <<last, prev, calls, fetch, derive, lockVars>>

\* the keyword arguments of the _status_callback calls of check_sp_asset
downloaded_report(successful, failed, total) ==
    [stage |-> "downloaded", successful |-> successful, failed |-> failed, total |-> total]

processing_report(processed, total, current_image) ==
    [stage |-> "processing", processed |-> processed, total |-> total,
     current_image |-> current_image]

\* the "completed" call reporting the uploads as the processed count
completed_report_uploads(d) ==
    [stage |-> "completed", processed |-> d.images_uploaded, uploaded |-> d.images_uploaded,
     duplicates |-> d.images_duplicate, total_urls |-> Len(d.tasks)]

completed_report(d) ==
    [stage |-> "completed", processed |-> d.images_processed, uploaded |-> d.images_uploaded,
     duplicates |-> d.images_duplicate, total_urls |-> Len(d.tasks)]

\* upload_task up to the download: check_summon(page) derives download_tasks;
\* "if download_tasks:" - without a task check_sp_asset is over and
\* upload_task returns 0
StartUpload ==
    /\ drv.pc = "start"
    /\ drv' = [drv EXCEPT !.tasks = summon_tasks(drv.page),
                          !.status.stage = "downloading",
                          !.events = Append(@, "downloading"),
                          !.return_code = IF summon_tasks(drv.page) = <<>> THEN 0 ELSE @,
                          !.pc = IF summon_tasks(drv.page) = <<>> THEN "returned" ELSE "download"]
    /\ UNCHANGED <<pages, archive, nextRev, cache, cdn, driverFrame>>

\* one download_single coroutine of get_images_concurrent finishes
DownloadOne ==
    /\ drv.pc = "download"
    /\ drv.downloaded < Len(drv.tasks)
    /\ drv' = [drv EXCEPT !.downloaded = @ + 1]
    /\ UNCHANGED <<pages, archive, nextRev, cache, cdn, driverFrame>>

\* a gather that returns as soon as one coroutine has finished
FirstGathered == drv.downloaded >= 1

\* "await asyncio.gather(*tasks)" returns: every coroutine has finished
Gathered == drv.downloaded = Len(drv.tasks)

\* get_images_concurrent answers for every URL: the "downloaded" event
DownloadAll ==
    /\ drv.pc = "download"
    /\ Gathered
    /\ LET download_results == [j \in 1..Len(drv.tasks) |->
                                    download_single(ScriptOf(cdn, drv.tasks[j].url))]
           successful == Cardinality({j \in 1..Len(drv.tasks) : download_results[j].success})
       IN  drv' = [drv EXCEPT !.results = download_results,
                              !.status.stage = "downloaded",
                              !.status.successful = successful,
                              !.status.failed = Len(drv.tasks) - successful,
                              !.status.total = Len(drv.tasks),
                              !.events = Append(@, "downloaded"),
                              !.reports = Append(@, downloaded_report(successful,
                                                        Len(drv.tasks) - successful,
                                                        Len(drv.tasks))),
                              !.pc = "process"]
    /\ UNCHANGED <<pages, archive, nextRev, cache, cdn, driverFrame>>

\* the concurrent download raises (its 300 s timeout cancels the gather
\* and what its coroutines fetched is lost): "Falling back to sequential
\* downloads..."
DownloadFails ==
    /\ drv.pc = "download"
    /\ drv' = [drv EXCEPT !.results = [j \in 1..Len(drv.tasks) |->
                                           get_image_script(ScriptOf(cdn, drv.tasks[j].url))],
                          !.downloaded = 0,
                          !.pc = "fallback"]
    /\ UNCHANGED <<pages, archive, nextRev, cache, cdn, driverFrame>>

\* an iteration that does not count the images check_image refused
EndIteration_failures_uncounted(j, w, counted) ==
    /\ pages' = w.pages
    /\ archive' = w.archive
    /\ nextRev' = w.nextRev
    /\ cache' = w.cache
    /\ cdn' = w.cdn
    /\ drv' = [drv EXCEPT
                 !.i = j,
                 !.images_processed = IF counted THEN @ + 1 ELSE @,
                 !.images_uploaded = IF counted /\ ~w.raised /\ w.ret = RetTrue THEN @ + 1 ELSE @,
                 !.images_failed = @,
                 !.images_duplicate = IF counted /\ ~w.raised /\ w.ret.kind = "name" THEN @ + 1 ELSE @,
                 !.status.stage = IF counted THEN "processing" ELSE @,
                 !.status.processed = IF counted THEN drv.images_processed + 1 ELSE @,
                 !.status.total = IF counted THEN drv.status.successful ELSE @,
                 !.status.current_image = IF counted THEN drv.tasks[j].true_name ELSE @,
                 !.events = IF counted THEN Append(@, "processing") ELSE @,
                 !.reports = IF counted
                             THEN Append(@, processing_report(drv.images_processed + 1,
                                                              drv.status.successful,
                                                              drv.tasks[j].true_name))
                             ELSE @,
                 !.writes = @ + Len(DoneWrites(w.log)),
                 !.noops = @ + w.noops,
                 !.tried = @ \cup {j},
                 !.trace = @ \o [k \in 1..Len(w.trace) |->
                                    [j |-> j, op |-> w.trace[k].op, a |-> w.trace[k].a]],
                 !.rets = (j :> w.ret) @@ @,
                 !.raised = IF w.raised THEN @ \cup {j} ELSE @,
                 !.maintained = IF ~w.raised /\ w.ret # RetFalse THEN @ \cup {j} ELSE @,
                 !.return_code = IF w.raised THEN 1 ELSE @,
                 !.pc = IF w.raised THEN "returned" ELSE @]
    /\ UNCHANGED driverFrame

\* the end of iteration j of a processing loop that left the world w; an
\* exception leaves check_sp_asset and upload_task returns 1
EndIteration(j, w, counted) ==
    /\ pages' = w.pages
    /\ archive' = w.archive
    /\ nextRev' = w.nextRev
    /\ cache' = w.cache
    /\ cdn' = w.cdn
    /\ drv' = [drv EXCEPT
                 !.i = j,
                 !.images_processed = IF counted THEN @ + 1 ELSE @,
                 !.images_uploaded = IF counted /\ ~w.raised /\ w.ret = RetTrue THEN @ + 1 ELSE @,
                 !.images_failed = IF counted /\ ~w.raised /\ w.ret = RetFalse THEN @ + 1 ELSE @,
                 !.images_duplicate = IF counted /\ ~w.raised /\ w.ret.kind = "name" THEN @ + 1 ELSE @,
                 !.status.stage = IF counted THEN "processing" ELSE @,
                 !.status.processed = IF counted THEN drv.images_processed + 1 ELSE @,
                 !.status.total = IF counted THEN drv.status.successful ELSE @,
                 !.status.current_image = IF counted THEN drv.tasks[j].true_name ELSE @,
                 !.events = IF counted THEN Append(@, "processing") ELSE @,
                 !.reports = IF counted
                             THEN Append(@, processing_report(drv.images_processed + 1,
                                                              drv.status.successful,
                                                              drv.tasks[j].true_name))
                             ELSE @,
                 !.writes = @ + Len(DoneWrites(w.log)),
                 !.noops = @ + w.noops,
                 !.tried = @ \cup {j},
                 !.trace = @ \o [k \in 1..Len(w.trace) |->
                                    [j |-> j, op |-> w.trace[k].op, a |-> w.trace[k].a]],
                 !.rets = (j :> w.ret) @@ @,
                 !.raised = IF w.raised THEN @ \cup {j} ELSE @,
                 !.maintained = IF ~w.raised /\ w.ret # RetFalse THEN @ \cup {j} ELSE @,
                 !.return_code = IF w.raised THEN 1 ELSE @,
                 !.pc = IF w.raised THEN "returned" ELSE @]
    /\ UNCHANGED driverFrame

\* the world an iteration starts in: WikiImages() or, under DRY_RUN,
\* DryRunWikiImages()
NewWorld(fault) ==
    IF drv.dry THEN DryWorld(pages, archive, nextRev, cache, cdn, fault)
    ELSE World(pages, archive, nextRev, cache, cdn, fault)

\* the loop over download_results runs through its next iteration with a
\* downloaded image
ProcessNext ==
    /\ drv.pc = "process"
    /\ NextSuccess(drv.results, drv.i) # 0
    /\ \E fault \in DriverFaults :
          EndIteration(NextSuccess(drv.results, drv.i),
                       process_task(NewWorld(fault),
                                    drv.tasks[NextSuccess(drv.results, drv.i)],
                                    drv.results[NextSuccess(drv.results, drv.i)]),
                       TRUE)

\* the loop is over: the "completed" event, and upload_task returns 0
Completed ==
    /\ drv.pc = "process"
    /\ NextSuccess(drv.results, drv.i) = 0
    /\ drv' = [drv EXCEPT !.status.stage = "completed",
                          !.status.processed = drv.images_processed,
                          !.status.uploaded = drv.images_uploaded,
                          !.status.duplicates = drv.images_duplicate,
                          !.status.total_urls = Len(drv.tasks),
                          !.events = Append(@, "completed"),
                          !.reports = Append(@, completed_report(drv)),
                          !.return_code = 0,
                          !.pc = "returned"]
    /\ UNCHANGED <<pages, archive, nextRev, cache, cdn, driverFrame>>

\* the sequential fallback loop runs through its next iteration whose
\* get_image succeeds
FallbackNext ==
    /\ drv.pc = "fallback"
    /\ NextSuccess(drv.results, drv.i) # 0
    /\ \E fault \in DriverFaults :
          EndIteration(NextSuccess(drv.results, drv.i),
                       process_task(NewWorld(fault),
                                    drv.tasks[NextSuccess(drv.results, drv.i)],
                                    drv.results[NextSuccess(drv.results, drv.i)]),
                       FALSE)

\* the fallback loop is over: check_sp_asset returns without a "completed"
\* event and upload_task returns 0
FallbackReturns ==
    /\ drv.pc = "fallback"
    /\ NextSuccess(drv.results, drv.i) = 0
    /\ drv' = [drv EXCEPT !.return_code = 0, !.pc = "returned"]
    /\ UNCHANGED <<pages, archive, nextRev, cache, cdn, driverFrame>>

Next ==
    \/ StartUpload
    \/ DownloadOne
    \/ DownloadAll
    \/ DownloadFails
    \/ ProcessNext
    \/ Completed
    \/ FallbackNext
    \/ FallbackReturns

Spec == Init /\ [][Next]_vars

-----------------------------------------------------------------------------
(* Properties of a run of upload_task (Spec).                              *)

\* the file redirect pages whose target is itself a redirect page
DoubleRedirects(pg) ==
    {b \in DOMAIN pg : /\ startswith(b, "File:")
                       /\ IsRedirect(pg[b])
                       /\ IsRedirect(PageOf(pg, RedirectTarget(pg[b])))}

\* C5: once the redirect maintenance of a task has finished, no file
\* redirect page has a target that is itself a redirect page, whatever
\* chains of redirects the wiki started with
C5_NoDoubleRedirects ==
    drv.maintained # {} => DoubleRedirects(pages) = {}

\* the run went through the loop over download_results
MainLoop == \E k \in 1..Len(drv.events) : drv.events[k] = "downloaded"

\* C10: when a wiki operation of a task raises, the task is counted as
\* failed and every later downloaded task is still processed
C10_FailureIsolated ==
    (drv.pc = "returned" /\ MainLoop) =>
        /\ \A j \in 1..Len(drv.results) : drv.results[j].success => j \in drv.tried
        /\ drv.images_failed >= Cardinality(drv.raised)

\* the run went through the sequential fallback and returned
FallbackRun == drv.pc = "returned" /\ drv.tasks # <<>> /\ ~MainLoop

\* C11: when the concurrent download fails, every task whose sequential
\* get_image succeeds is resolved and redirected: none is left untried and
\* none is cut short
C11_FallbackProcessesAll ==
    FallbackRun =>
        \A j \in 1..Len(drv.results) :
            drv.results[j].success => j \in drv.tried /\ j \notin drv.raised

\* the "completed" calls among the progress reports of the run
CompletedReports == {k \in 1..Len(drv.reports) : drv.reports[k].stage = "completed"}

\* C12: a run that returns normally has emitted exactly one 'completed'
\* report, as its last report, carrying the processed, uploaded, duplicates
\* and failed counts
C12_FinalReport ==
    (drv.pc = "returned" /\ drv.return_code = 0) =>
        /\ CompletedReports = {Len(drv.reports)}
        /\ drv.reports # <<>>
        /\ {"processed", "uploaded", "duplicates", "failed"}
              \subseteq DOMAIN drv.reports[Len(drv.reports)]

Counters == {"processed", "uploaded", "duplicates", "failed"}

C15_DryRunWritesNothing ==
    drv.pc # "off" /\ drv.dry => drv.writes = 0

-----------------------------------------------------------------------------
(* Claims about the writes of the redirect and category handlers.          *)

\* C14: no save issued by check_redirect, investigate_backlinks (reached
\* through check_image), check_double_redirect or check_image_categories
\* writes the text the page already holds, in the first call and in the
\* repeated calls that follow it.
C14_NoNoOpWrite == last.noops = 0 /\ prev.noops = 0

\* a handler saved a page and the same call, repeated, found the text in
\* place and saved nothing
C14_Witness ==
    /\ calls >= 2
    /\ last.op \in {"check_redirect", "check_image_categories", "check_double_redirect"}
    /\ DoneWrites(prev.log) # <<>>
    /\ prev.log[Len(prev.log)].op = "save"
    /\ ~prev.raised
    /\ Saves(last.log) = <<>>

RECURSIVE RedirectsInto(_, _, _)
\* the titles S and the pages of pg reaching S through at most n redirects
RedirectsInto(pg, S, n) ==
    IF n = 0 THEN S
    ELSE RedirectsInto(pg, S \cup {b \in DOMAIN pg : IsRedirect(pg[b]) /\ RedirectTarget(pg[b]) \in S},
                       n - 1)

\* the redirect pages of pg from which following redirects leads to source
BacklinkTree(pg, source) == RedirectsInto(pg, {WikiTitle(source)}, MaxChain) \ {WikiTitle(source)}

\* C16: when check_redirect(target, source) has written the redirect of
\* source, every redirect page that led to source before the call, at any
\* depth, and whose text began with '#REDIRECT [[File:' now redirects
\* directly to target.
C16_ChainRepaired ==
    (last.op = "check_redirect" /\ ~last.raised /\ DoneWrites(last.log) # <<>>) =>
        \A b \in BacklinkTree(last.pre, last.b) :
            startswith(last.pre[b].text, "#REDIRECT [[File:") =>
                pages[b].text = RedirectText(replace_us(last.a))

\* the call's write that the injected rate-limit error hit (0 when the call
\* made fewer writes)
FaultedWrite(c) ==
    IF c.fault.kind = "write" /\ c.fault.at <= Len(Writes(c.log)) THEN c.fault.at ELSE 0

\* C17: a wiki write (move, upload, page save) answered once with a
\* rate-limit error is attempted again, and the error does not end the call:
\* no exception leaves the handler and check_image does not return False.
C17_WritesRetried ==
    (FaultedWrite(last) # 0 /\ last.fault.n = 1) =>
        /\ Writes(last.log)[FaultedWrite(last)].tries >= 2
        /\ Writes(last.log)[FaultedWrite(last)].ok

IsMoveOrUpload(e) == e.op \in {"move", "upload"}

\* C18: when the file search of check_image fails with an error, the call
\* ends as a failure (it returns False or raises) and attempts neither a
\* move nor an upload.
C18_FailedSearchAbandons ==
    (last.op = "check_image" /\ last.fault.kind = "search") =>
        /\ last.ret = RetFalse \/ last.raised
        /\ SelectSeq(last.log, IsMoveOrUpload) = <<>>

-----------------------------------------------------------------------------
(* Claims about the derivation being a function of the template.           *)

\* the tasks check_weapon, check_summon or check_skin derive from a page
TasksOf(asset_type, page) ==
    CASE asset_type = "weapon" -> weapon_tasks(page)
      [] asset_type = "summon" -> summon_tasks(page)
      [] asset_type = "artifact" -> artifact_tasks(page)
      [] asset_type = "character" -> character_tasks(page)
      [] asset_type = "npc" -> skin_tasks(page)

RECURSIVE AloneTasks(_, _, _)
\* the tasks of the templates i, i+1, ... of a page, each derived from the
\* page holding that template alone
AloneTasks(asset_type, page, i) ==
    IF i > Len(page.templates) THEN <<>>
    ELSE TasksOf(asset_type, [page EXCEPT !.templates = <<page.templates[i]>>])
         \o AloneTasks(asset_type, page, i + 1)

\* C19: the tasks derived from a template (url, canonical name, alias
\* names, categories) do not depend on the templates processed before it:
\* the tasks of a page are the tasks of its templates, each taken alone on
\* the same page, in order.
C19_TemplateIndependent ==
    derive.pc = "derived" => derive.tasks = AloneTasks(derive.asset_type, derive.page, 1)

-----------------------------------------------------------------------------
(* Claims about the retry policy of the fetcher.                           *)

\* C20: a fetch asks again only after a 407, 429, 500, 502, 503, 504 or a
\* transport error; any other answer that is not a 200 ends it in failure
\* after that one request; it makes at most max_retries + 1 = 4 requests;
\* it sleeps 2^k seconds before retry k (k = 0, 1, 2), once before every
\* retry and never after its last request.
C20_RetryPolicy ==
    fetch.pc = "done" =>
        /\ fetch.result.requests \in 1..(max_retries + 1)
        /\ max_retries + 1 = 4
        /\ \A k \in 1..(fetch.result.requests - 1) :
              Answer(fetch.script, k).status \in {0, 407, 429, 500, 502, 503, 504}
        /\ Answer(fetch.script, 1).status \notin {0, 200, 407, 429, 500, 502, 503, 504}
              => ~fetch.result.success /\ fetch.result.requests = 1
        /\ Len(fetch.result.sleeps) = fetch.result.requests - 1
        /\ \A k \in 1..Len(fetch.result.sleeps) : fetch.result.sleeps[k] = 2 ^ (k - 1)

\* four answers 429 in a row: download_single gives up after its fourth
\* request, having slept 1, 2 and 4 seconds
C20_Witness ==
    /\ fetch.pc = "done"
    /\ fetch.fn = "download_single"
    /\ \A k \in 1..4 : Answer(fetch.script, k).status = 429
    /\ ~fetch.result.success
    /\ fetch.result.requests = 4
    /\ fetch.result.sleeps = <<1, 2, 4>>

-----------------------------------------------------------------------------
(* Claims about the branches of check_image.                               *)

\* the first call of a run, when it is check_image, made again on the wiki
\* it started from with no archived copy returned by the search
WithoutArchive ==
    check_image(World(last.pre, {}, FirstRev, <<>>, cdn, last.fault),
                last.a, sha1_hexdigest(last.io), Len(last.io), last.io, last.others)

\* what a call leaves behind: its log, its result and the wiki
Outcome(w) == [log |-> w.log, ret |-> w.ret, raised |-> w.raised, pages |-> w.pages]

\* C21: archived copies returned by the search do not take part in the
\* decision of check_image: the writes attempted, their targets, the
\* returned value and the wiki left behind are those of the same call on
\* the same wiki with no archived copy.
C21_ArchivedIgnored ==
    (calls = 1 /\ last.op = "check_image") =>
        Outcome(WithoutArchive)
            = [log |-> last.log, ret |-> last.ret, raised |-> last.raised, pages |-> pages]

\* an archived copy of the image exists and check_image moved the one
\* current copy to the canonical name
C21_Witness ==
    /\ calls = 1
    /\ last.op = "check_image"
    /\ \E a \in archive : a.body = last.io
    /\ last.ret = RetName(capitalize(last.a))
    /\ \E k \in 1..Len(last.log) : last.log[k].op = "move" /\ last.log[k].ok

\* the positions of the entries of a log made by operation op
At(log, op) == {k \in 1..Len(log) : log[k].op = op}

\* the alias names of a call that are real file pages when it starts
AliasFiles(c) ==
    {WikiTitle(F(c.others[k])) : k \in {j \in 1..Len(c.others) :
        PageOf(c.pre, F(c.others[j])).exists /\ ~IsRedirect(PageOf(c.pre, F(c.others[j])))}}

\* a first call check_image that finds no current copy of the image, the
\* search having answered and no injected error hitting a move or a save
ZeroMatchCall ==
    /\ calls = 1
    /\ SearchAnswered(last)
    /\ CurrentMatches(last.pre, last.io) = {}
    /\ FaultedWrite(last) # 0 => Writes(last.log)[FaultedWrite(last)].op = "upload"

\* C22: on the zero-match branch check_image moves every alias name that
\* is a real file page to the canonical name and points the redirects that
\* led to it at the canonical name, then uploads exactly once, under the
\* canonical name, after all the moves; it returns True when the upload
\* succeeded and False when it was answered with a warning or raised.
C22_ZeroMatchOrder ==
    ZeroMatchCall =>
        /\ Cardinality(At(last.log, "upload")) = 1
        /\ ~last.raised
        /\ \A u \in At(last.log, "upload") :
              /\ last.log[u].a = WikiTitle(F(capitalize(last.a)))
              /\ \A k \in At(last.log, "move") \cup At(last.log, "save") : k < u
              /\ last.ret = IF last.log[u].ok THEN RetTrue ELSE RetFalse
        /\ \A t \in AliasFiles(last) :
              /\ \E k \in At(last.log, "move") :
                    /\ last.log[k].a = t
                    /\ last.log[k].b = WikiTitle(F(capitalize(last.a)))
                    /\ last.log[k].ok
              /\ \A b \in BacklinkTree(last.pre, t) :
                    pages[b].text = RedirectText(F(capitalize(last.a)))

\* the canonical title of the image a check_image call is about
Canonical(c) == WikiTitle(F(capitalize(c.a)))

\* the call re-fetched the lower-numbered image and found the same content
SameContentFetched(c) ==
    \E i \in At(c.log, "fetch") : c.log[i].ok /\ c.log[i].b = sha1_hexdigest(c.io)

\* a first call check_image finding exactly one current copy, at title t
\* and not under the canonical name, where the lowest-id branch did not
\* return and no injected error hit a write
RenameCall(t) ==
    /\ calls = 1
    /\ SearchAnswered(last)
    /\ CurrentMatches(last.pre, last.io) = {t}
    /\ ~SameTitle(t, last.a)
    /\ ~SameContentFetched(last)
    /\ FaultedWrite(last) = 0

\* C23: on the rename branch check_image moves the one duplicate to the
\* canonical name and returns the canonical name, and afterwards every
\* file-redirect page that led to the old title, directly or through other
\* redirects, points directly at the canonical name.
C23_RenameRepairs ==
    \A t \in DOMAIN last.pre :
        RenameCall(t) =>
            /\ ~last.raised
            /\ last.ret = RetName(capitalize(last.a))
            /\ \E k \in At(last.log, "move") :
                  last.log[k].a = t /\ last.log[k].b = Canonical(last) /\ last.log[k].ok
            /\ PageOf(pages, Canonical(last)).body = last.io
            /\ \A b \in BacklinkTree(last.pre, t) :
                  startswith(last.pre[b].text, "#REDIRECT [[File:") =>
                      pages[b].text = RedirectText(Canonical(last))

\* C24: check_image re-fetches and redirects (the lowest-id branch) only
\* when the title of the one duplicate and the new canonical name both
\* match '(Summon|Weapon) section id.ext' and the duplicate's id is
\* strictly lower; for every other pair of names it returns the canonical
\* name as already correct or moves the duplicate.
C24_LowestIdGuard ==
    \A t \in DOMAIN last.pre :
        (calls = 1 /\ SearchAnswered(last) /\ CurrentMatches(last.pre, last.io) = {t}) =>
            IF At(last.log, "fetch") # {}
            THEN /\ dupe_match(t).ok
                 /\ dupe_match(Canonical(last)).ok
                 /\ int(dupe_match(t).g3) < int(dupe_match(Canonical(last)).g3)
            ELSE \/ last.ret = RetName(capitalize(last.a)) /\ Writes(last.log) = <<>>
                 \/ \E k \in At(last.log, "move") : last.log[k].a = t

\* a first call check_image that returned, whose one current copy is at t,
\* t and the canonical name both being pattern names with different ids
TwoIdsCall(t) ==
    /\ calls = 1
    /\ SearchAnswered(last)
    /\ ~last.raised
    /\ CurrentMatches(last.pre, last.io) = {t}
    /\ dupe_match(t).ok
    /\ dupe_match(Canonical(last)).ok
    /\ int(dupe_match(t).g3) # int(dupe_match(Canonical(last)).g3)

\* of the title t and the canonical name, the one with the lower id and
\* the one with the higher id
LowerTitle(t) ==
    IF int(dupe_match(t).g3) < int(dupe_match(Canonical(last)).g3) THEN t ELSE Canonical(last)
HigherTitle(t) ==
    IF int(dupe_match(t).g3) < int(dupe_match(Canonical(last)).g3) THEN Canonical(last) ELSE t

\* the content is stored under the lower id and the higher id redirects to it
LowestIdHolds(t) ==
    /\ PageOf(pages, LowerTitle(t)).body = last.io
    /\ PageOf(pages, HigherTitle(t)).text = RedirectText(LowerTitle(t))

ServesSame(t) ==
    /\ ScriptOf(cdn, dupe_url(dupe_match(t)))[1].status = 200
    /\ ScriptOf(cdn, dupe_url(dupe_match(t)))[1].body = last.io

-----------------------------------------------------------------------------
(* Claims about the names and aliases of the derived tasks.                *)

\* the ids a page's templates carry
PageIds(page) ==
    UNION {{asset_ids(page.templates[i].params)[j] :
                j \in 1..Len(asset_ids(page.templates[i].params))} :
           i \in 1..Len(page.templates)}

\* the task is the image of an id with an empty variant suffix
EmptyVariant(task, page) ==
    \E id \in PageIds(page), ext \in {"png", "jpg"} :
        endswith(task.true_name, " " \o id \o "." \o ext)

\* the title the wiki stores an image under when check_image uploads it
StoredTitle(true_name) == WikiTitle("File:" \o capitalize(true_name))

\* C26: for every Summon or Weapon task with an empty variant suffix, the
\* resolver's pattern matches the title the canonical name is stored
\* under, and the URL rebuilt from the matched type, section, id and
\* extension is the URL the task was derived with.
C26_NameRoundTrip ==
    (derive.pc = "derived" /\ derive.asset_type \in {"weapon", "summon"}) =>
        \A k \in 1..Len(derive.tasks) :
            EmptyVariant(derive.tasks[k], derive.page) =>
                /\ dupe_match(StoredTitle(derive.tasks[k].true_name)).ok
                /\ dupe_url(dupe_match(StoredTitle(derive.tasks[k].true_name)))
                      = derive.tasks[k].url

\* the calls the driver made for task j, in order
CallsOf(j) ==
    LET of_task(e) == e.j = j IN SelectSeq(drv.trace, of_task)

\* the name task j ends under: the name check_image returned, else its own
FinalNameOf(j) ==
    IF drv.rets[j].kind = "name" THEN drv.rets[j].name ELSE drv.tasks[j].true_name

\* check_image, the categories, one check_file_redirect per alias in the
\* order of other_names, then check_file_double_redirect of the final name
DecidedCalls(j) ==
    <<[j |-> j, op |-> "check_image", a |-> drv.tasks[j].true_name],
      [j |-> j, op |-> "check_image_categories", a |-> FinalNameOf(j)]>>
    \o [k \in 1..Len(drv.tasks[j].other_names) |->
           [j |-> j, op |-> "check_file_redirect", a |-> drv.tasks[j].other_names[k]]]
    \o <<[j |-> j, op |-> "check_file_double_redirect", a |-> FinalNameOf(j)]>>

\* C27: for every task whose check_image returned something other than
\* False and whose iteration no wiki operation cut short, the driver called
\* check_file_redirect once per alias and then check_file_double_redirect on
\* the final name, and each of these calls precedes every call made for a
\* later task of the page
C27_CollapseAfterDecision ==
    \A j \in drv.tried \ drv.raised :
        drv.rets[j] # RetFalse =>
            /\ CallsOf(j) = DecidedCalls(j)
            /\ \A k \in 1..Len(drv.trace), l \in 1..Len(drv.trace) :
                   (drv.trace[k].j = j /\ drv.trace[l].j > j) => k < l

C27_Witness ==
    \E j \in drv.tried \ drv.raised, n \in drv.tried :
        /\ j < n
        /\ drv.rets[j].kind = "name"
        /\ Len(drv.tasks[j].other_names) >= 1
        /\ \E k \in 1..Len(drv.trace) :
               drv.trace[k].j = n /\ drv.trace[k].op = "check_file_double_redirect"

\* C28: on the concurrent path the driver makes no call that works on the
\* wiki before every download of the page has finished and its result is
\* held, and the calls of two tasks never interleave: the calls are made
\* task by task in the order of the tasks
C28_PhaseOrdering ==
    (MainLoop /\ drv.trace # <<>>) =>
        /\ drv.downloaded = Len(drv.tasks)
        /\ Len(drv.results) = Len(drv.tasks)
        /\ \A k \in 1..(Len(drv.trace) - 1) : drv.trace[k].j <= drv.trace[k + 1].j

C28_Witness ==
    /\ MainLoop
    /\ Len(drv.tasks) > 2
    /\ drv.writes > 0
    /\ \E k \in 1..(Len(drv.trace) - 1) : drv.trace[k].j < drv.trace[k + 1].j

-----------------------------------------------------------------------------
(* _perform_wiki_action_with_retry on its own (SpecRetry).                 *)

\* the API error codes after which the wrapper calls the action again
Retryable == {"ratelimited", "maxlag"}

\* the longest run of errors an action answers with before its own outcome
MaxErrors == 6

\* self.delay, and other settings of it
delay == 25
Delays == {0, 2, delay, 100}

\* the outcomes of the successive calls of an action: API error codes, then
\* "ok" or an error the wrapper does not retry
ErrorRuns == UNION {[1..n -> Retryable] : n \in 0..MaxErrors}
ActionScripts == {run \o <<final>> : run \in ErrorRuns, final \in {"ok", "badtoken"}}

\* the sleep before the retry that follows failed attempt number attempt
retry_wait_unclamped(d, attempt) == d * attempt

retry_wait_time(d, attempt) ==
    LET capped == IF d * attempt < 60 THEN d * attempt ELSE 60
    IN  IF capped > 5 THEN capped ELSE 5

\* the loop of the wrapper from a call of the action on: attempt retries
\* were made before it, after the sleeps waits (one call per retry, and
\* the first); result is the number of the call whose value is returned
RECURSIVE _perform_wiki_action_with_retry(_, _, _, _)
_perform_wiki_action_with_retry(script, d, attempt, waits) ==
    IF Head(script) = "ok"
    THEN [calls |-> attempt + 1, raised |-> FALSE, code |-> "", waits |-> waits,
          result |-> attempt + 1]
    ELSE IF Head(script) \in Retryable /\ attempt < max_attempts
    THEN _perform_wiki_action_with_retry(Tail(script), d, attempt + 1,
                                         Append(waits, retry_wait_time(d, attempt + 1)))
    ELSE [calls |-> attempt + 1, raised |-> TRUE, code |-> Head(script), waits |-> waits,
          result |-> 0]

InitRetry ==
    /\ pages = <<>> /\ archive = {} /\ nextRev = FirstRev /\ cache = <<>> /\ cdn = <<>>
    /\ last = NoCall /\ prev = NoCall /\ calls = 0
    /\ fetch = [pc |-> "off"] /\ derive = [pc |-> "off"] /\ drv = [pc |-> "off"]
    /\ cmds = <<>> /\ lockHeld = FALSE /\ last_used = {}

\* one wiki action run through the wrapper
CallWithRetry ==
    /\ calls = 0
    /\ \E script \in ActionScripts, d \in Delays :
          last' = [op |-> "_perform_wiki_action_with_retry", script |-> script, delay |-> d,
                   out |-> _perform_wiki_action_with_retry(script, d, 0, <<>>)]
    /\ calls' = 1
    /\ UNCHANGED <<pages, archive, nextRev, cache, cdn, prev, fetch, derive, cmds, lockHeld,
                   last_used, drv>>

NextRetry == CallWithRetry

SpecRetry == InitRetry /\ [][NextRetry]_vars

\* the calls of the script that the wrapper does not repeat: a success or
\* an error that is not a rate limit
Final(script) == {k \in 1..Len(script) : script[k] \notin Retryable}

PathsOf(asset_type) ==
    CASE asset_type = "weapon" -> WeaponPaths
      [] asset_type = "summon" -> SummonPaths
      [] asset_type = "artifact" -> ArtifactPaths

\* the task is the image of version v of section p for the id
NamedBy(task, asset_type, p, v, id) ==
    task.true_name = capitalize(asset_type) \o " "
                         \o (IF p.section = "wsp" THEN "sp" ELSE p.section)
                         \o " " \o id \o p.versions[v] \o "." \o p.ext

\* the alias without a version label, and the alias with it
PlainAlias(page, p) == page.name \o p.suffix \o "." \o p.ext
LabelledAlias(page, p, v) ==
    page.name \o p.suffix \o (IF p.suffix = "" /\ p.labels[v] # "" THEN " " ELSE "")
        \o p.labels[v] \o "." \o p.ext

\* the derived tasks of check_sp_asset with the section, version and id
\* each is the image of
VersionTasks ==
    IF derive.pc = "derived" /\ derive.asset_type \in {"weapon", "summon", "artifact"}
    THEN LET paths == PathsOf(derive.asset_type)
         IN  UNION {UNION {{<<k, i, v, id>> : k \in 1..Len(derive.tasks),
                                              id \in PageIds(derive.page)} :
                              v \in 1..Len(paths[i].versions)} : i \in 1..Len(paths)}
             \cap {t \in Nat \X Nat \X Nat \X PageIds(derive.page) :
                       NamedBy(derive.tasks[t[1]], derive.asset_type, paths[t[2]], t[3], t[4])}
    ELSE {}

Names(task) == {task.other_names[n] : n \in 1..Len(task.other_names)}

DescriptorTables ==
    {CharacterPaths, SummonPaths, WeaponPaths, NpcPaths, ArtifactPaths, RucksackPaths, SkinPaths}

\* C31: in every entry of every descriptor table the version suffixes and
\* the version labels are lists of the same length, so the label the loop
\* over the versions reads for a version always exists
C31_ParallelSequences ==
    derive.pc \in {"page", "derived"} =>
        \A table \in DescriptorTables : \A i \in 1..Len(table) :
            /\ Len(table[i].versions) = Len(table[i].labels)
            /\ \A version \in 1..Len(table[i].versions) : version \in DOMAIN table[i].labels

\* the last version of the longest entry has been derived with its label
C31_Witness ==
    /\ derive.pc = "derived"
    /\ derive.asset_type = "character"
    /\ derive.page.name = "Sword"
    /\ \E k \in 1..Len(derive.tasks) :
           /\ derive.tasks[k].true_name = "Npc f_skin 3040000000_03_06.jpg"
           /\ derive.tasks[k].url = AssetsUrl \o "img/sp/assets/npc/f/skin/3040000000_03_06.jpg"
           /\ derive.tasks[k].other_names
                  = <<"Sword_tall" \o CharacterPaths[2].labels[Len(CharacterPaths[2].versions)]
                          \o ".jpg">>

-----------------------------------------------------------------------------
(* investigate_backlinks on its own (SpecWalk): wikis of redirect pages    *)
(* with and without cycles.                                                *)

\* the pages of the walked wikis: a redirect in the File namespace and two
\* outside it
WalkNodes == <<R(1), "Bahamut", "Bahamut (Summon)">>
WalkTitles == {WalkNodes[i] : i \in 1..Len(WalkNodes)} \cup {F(Old)}

\* every wiki in which each of the pages is missing ("") or a redirect to
\* one of the titles
WalkWikis ==
    {[t \in {WalkNodes[i] : i \in {j \in 1..Len(WalkNodes) : f[j] # ""}} |->
         RedirectPage(f[CHOOSE i \in 1..Len(WalkNodes) : WalkNodes[i] = t],
                      CHOOSE i \in 1..Len(WalkNodes) : WalkNodes[i] = t)] :
        f \in [1..Len(WalkNodes) -> WalkTitles \cup {""}]}

InitWalk ==
    /\ pages \in WalkWikis
    /\ archive = {} /\ nextRev = FirstRev /\ cache = <<>> /\ cdn = <<>>
    /\ last = NoCall /\ prev = NoCall /\ calls = 0
    /\ Idle

\* the walk ends: what it wrote is in the wiki, and the pages it came to
\* are kept with the call
Walked(source, target, w) ==
    /\ pages' = w.pages
    /\ archive' = w.archive
    /\ nextRev' = w.nextRev
    /\ cache' = w.cache
    /\ cdn' = w.cdn
    /\ prev' = last
    /\ last' = [visits |-> w.visits] @@ CallRec("investigate_backlinks", target, source, <<>>, "", w)
    /\ calls' = calls + 1
    /\ UNCHANGED <<fetch, derive, lockVars, drv>>

\* investigate_backlinks(source.backlinks(filterredir='redirects'), source,
\* target), as check_image calls it
CallInvestigateBacklinks ==
    /\ calls = 0
    /\ \E source \in WalkTitles :
          Walked(source, F(N301),
                 investigate_backlinks(Now(NoFault), backlinks(pages, source), F(N301),
                                       RecursionLimit))

NextWalk == CallInvestigateBacklinks

SpecWalk == InitWalk /\ [][NextWalk]_vars

\* the pages of pg from which following one or more redirects leads to t
Reaching(pg, t) ==
    RedirectsInto(pg, {b \in DOMAIN pg : IsRedirect(pg[b]) /\ RedirectTarget(pg[b]) = WikiTitle(t)},
                  Cardinality(DOMAIN pg))

\* the pages on a cycle of redirects from which the source is reached
CyclePages(pg, source) == {n \in Reaching(pg, source) : n \in Reaching(pg, n)}

\* the cycle of redirects through n
CycleOf(pg, n) == {m \in Reaching(pg, n) : n \in Reaching(pg, m)}

\* the walk rewrites the page when it comes to it
Rewritten(pg, n, target) ==
    startswith(pg[n].text, "#REDIRECT [[File:") /\ pg[n].text # RedirectText(replace_us(target))

WalkCall == calls = 1 /\ last.op = "investigate_backlinks"

\* how often the walk came to page n
VisitsOf(n) == Cardinality({k \in 1..Len(last.visits) : last.visits[k] = n})

\* on a wiki without a reachable cycle the walk ends, having come once to
\* each page that reaches the source and to no other page
AcyclicWalk ==
    (WalkCall /\ CyclePages(last.pre, last.b) = {}) =>
        /\ ~last.raised
        /\ \A n \in DOMAIN last.pre :
               VisitsOf(n) = (IF n \in Reaching(last.pre, last.b) THEN 1 ELSE 0)

-----------------------------------------------------------------------------
(* run_draw_update (SpecDraw): the pages of the MainPageDraw templates.    *)

DRAW_PAGE_PROMO_MODE == "Template:MainPageDraw/PromoMode"
DRAW_PAGE_END_DATE == "Template:MainPageDraw/EndDate"
DRAW_PAGE_SINGLE == "Template:MainPageDraw/SinglePromo"
DRAW_PAGE_DOUBLE_LEFT == "Template:MainPageDraw/DoublePromoLeft"
DRAW_PAGE_DOUBLE_RIGHT == "Template:MainPageDraw/DoublePromoRight"
DRAW_PAGE_ELEMENT_BANNERS == "Template:MainPageDraw/ElementPromoBanners"
DRAW_PAGE_ELEMENT_ICONS == "Template:MainPageDraw/ElementPromoIcons"
DRAW_ELEMENT_ORDER == <<"fire", "water", "earth", "wind", "light", "dark">>
DRAW_MAX_PROBE_DEFAULT == 12

RECURSIVE str(_)
\* str(n) of a natural number
str(n) == IF n < 10 THEN Ch(Digits, n + 1) ELSE str(n \div 10) \o Ch(Digits, (n % 10) + 1)

\* f"banner_{banner_id}_{index}.png"
banner_file(banner_id, index) == "banner_" \o banner_id \o "_" \o str(index) \o ".png"

\* the title is a file, or a redirect that the API resolves to a file
_file_exists_or_redirects_to_file(pg, file_name) ==
    LET page == PageOf(pg, F(file_name))
    IN  IF ~page.exists THEN FALSE
        ELSE IF IsRedirect(page) THEN PageOf(pg, RedirectTarget(page)).body # ""
        ELSE page.body # ""

\* count = None
NoCount == 0 - 1

\* the banners 1..n found by probing until the first miss
Probed(pg, banner_id, max_probe) ==
    LET n == CHOOSE k \in 0..max_probe :
                 /\ \A i \in 1..k : _file_exists_or_redirects_to_file(pg, banner_file(banner_id, i))
                 /\ k < max_probe =>
                        ~_file_exists_or_redirects_to_file(pg, banner_file(banner_id, k + 1))
    IN  [i \in 1..n |-> banner_file(banner_id, i)]

\* _resolve_draw_file_list: the list, or the ValueError
_resolve_draw_file_list(pg, banner_id, count, max_probe) ==
    IF count # NoCount
    THEN IF \A i \in 1..count : _file_exists_or_redirects_to_file(pg, banner_file(banner_id, i))
         THEN [raised |-> FALSE, files |-> [i \in 1..count |-> banner_file(banner_id, i)]]
         ELSE [raised |-> TRUE, files |-> <<>>]
    ELSE IF Probed(pg, banner_id, max_probe) = <<>>
    THEN [raised |-> TRUE, files |-> <<>>]
    ELSE [raised |-> FALSE, files |-> Probed(pg, banner_id, max_probe)]

RECURSIVE gallery_lines(_, _)
gallery_lines(file_names, link_target) ==
    IF file_names = <<>> THEN ""
    ELSE "\n|[[File:" \o Head(file_names) \o "|230px|link=" \o link_target \o "]]"
         \o gallery_lines(Tail(file_names), link_target)

build_draw_gallery_swap_images(file_names, link_target) ==
    "{{GallerySwapImages|w=230|h=110" \o gallery_lines(file_names, link_target) \o "\n}}"

\* build_draw_element_mode_content: its ValueErrors; of the two schedule
\* texts only the banners shown and the start element are kept
build_draw_element_mode_content(left_files, link_target, start_element, is_double, right_files) ==
    IF left_files = <<>> THEN [raised |-> TRUE, banners |-> "", icons |-> ""]
    ELSE IF is_double /\ right_files = <<>> THEN [raised |-> TRUE, banners |-> "", icons |-> ""]
    ELSE IF is_double /\ Len(left_files) # 12 /\ Len(right_files) # 12
    THEN [raised |-> TRUE, banners |-> "", icons |-> ""]
    ELSE IF \A i \in 1..Len(DRAW_ELEMENT_ORDER) : DRAW_ELEMENT_ORDER[i] # start_element
    THEN [raised |-> TRUE, banners |-> "", icons |-> ""]
    ELSE [raised |-> FALSE,
          banners |-> "{{ScheduledContent|" \o build_draw_gallery_swap_images(left_files, link_target)
                          \o (IF is_double
                              THEN build_draw_gallery_swap_images(right_files, link_target)
                              ELSE "") \o "}}",
          icons |-> "{{Icon|" \o start_element \o "}}"]

\* the texts datetime.strptime(text, "%Y-%m-%d %H:%M") accepts, of those given
ValidEndDates == {"2026-11-30 18:59"}

\* "element" for the element modes
promo_mode_value(mode) == IF mode \in {"element-single", "element-double"} THEN "element" ELSE mode

\* the pages of the content of a mode, before the end date and the mode
content_updates(mode, left_files, right_files, link_target, end_datetime_text, element_start) ==
    CASE mode = "single" ->
           [raised |-> FALSE,
            updates |-> <<<<DRAW_PAGE_SINGLE, build_draw_gallery_swap_images(left_files, link_target)>>>>]
      [] mode = "double" ->
           [raised |-> FALSE,
            updates |-> <<<<DRAW_PAGE_DOUBLE_LEFT,
                            build_draw_gallery_swap_images(left_files, link_target)>>,
                          <<DRAW_PAGE_DOUBLE_RIGHT,
                            build_draw_gallery_swap_images(right_files, link_target)>>>>]
      [] mode \in {"element-single", "element-double"} ->
           IF end_datetime_text \notin ValidEndDates THEN [raised |-> TRUE, updates |-> <<>>]
           ELSE LET content == build_draw_element_mode_content(
                                   left_files, link_target, element_start,
                                   mode = "element-double", right_files)
                IN  IF content.raised THEN [raised |-> TRUE, updates |-> <<>>]
                    ELSE [raised |-> FALSE,
                          updates |-> <<<<DRAW_PAGE_ELEMENT_BANNERS, content.banners>>,
                                        <<DRAW_PAGE_ELEMENT_ICONS, content.icons>>>>]
      [] OTHER -> [raised |-> TRUE, updates |-> <<>>]

\* a list that switches the mode before the content is written
page_updates_mode_first(content, mode, end_datetime_text) ==
    <<<<DRAW_PAGE_PROMO_MODE, promo_mode_value(mode)>>>> \o content
        \o <<<<DRAW_PAGE_END_DATE, end_datetime_text>>>>

\* "Safety order: content first, then end date, then mode switch."
page_updates(content, mode, end_datetime_text) ==
    content \o <<<<DRAW_PAGE_END_DATE, end_datetime_text>>,
                 <<DRAW_PAGE_PROMO_MODE, promo_mode_value(mode)>>>>

\* the text of the seven template pages before the command
OldText == "previous promotion"

DrawTemplatePages ==
    {DRAW_PAGE_PROMO_MODE, DRAW_PAGE_END_DATE, DRAW_PAGE_SINGLE, DRAW_PAGE_DOUBLE_LEFT,
     DRAW_PAGE_DOUBLE_RIGHT, DRAW_PAGE_ELEMENT_BANNERS, DRAW_PAGE_ELEMENT_ICONS}

\* the wiki with the banners of the indices in left and right
DrawWiki(left, right) ==
    [t \in DrawTemplatePages |-> [exists |-> TRUE, text |-> OldText, rev |-> 1, body |-> ""]]
    @@ [t \in {WikiTitle(F(banner_file("L", i))) : i \in left} |-> FilePage(B1, 2)]
    @@ [t \in {WikiTitle(F(banner_file("R", i))) : i \in right} |-> FilePage(B2, 3)]

\* the most saves a command makes
MaxSaves == 4

DrawModes == {"single", "double", "element-single", "element-double", "triple"}

InitDraw ==
    /\ \E left \in {{}, {1}, {1, 2}, {1, 3}, 1..12}, right \in {{}, {1}} :
          pages = DrawWiki(left, right)
    /\ archive = {} /\ nextRev = FirstRev /\ cache = <<>> /\ cdn = <<>>
    /\ last = NoCall /\ prev = NoCall /\ calls = 0
    /\ fetch = [pc |-> "off"] /\ derive = [pc |-> "off"]
    /\ cmds = <<>> /\ lockHeld = FALSE /\ last_used = {}
    /\ \E mode \in DrawModes, end_datetime_text \in ValidEndDates \cup {"tomorrow"},
          right_banner_id \in {"", "R"}, left_count \in {NoCount, 2},
          element_start \in {"fire", "void"}, fail \in 0..MaxSaves :
          drv = [pc |-> "draw", mode |-> mode, end_datetime_text |-> end_datetime_text,
                 right_banner_id |-> right_banner_id, left_count |-> left_count,
                 element_start |-> element_start, fail |-> fail, stage |-> "",
                 left_files |-> <<>>, right_files |-> <<>>, updates |-> <<>>,
                 saved |-> <<>>, rc |-> NoCount]

drawFrame == <<archive, cache, cdn, last, prev, calls, fetch, derive, lockVars>>

\* "resolving_files": the two lists, or the exception that ends the task
DrawResolve ==
    /\ drv.pc = "draw"
    /\ LET left == _resolve_draw_file_list(pages, "L", drv.left_count, DRAW_MAX_PROBE_DEFAULT)
           right == IF drv.mode \in {"double", "element-double"} /\ drv.right_banner_id # ""
                    THEN _resolve_draw_file_list(pages, drv.right_banner_id, NoCount,
                                                 DRAW_MAX_PROBE_DEFAULT)
                    ELSE [raised |-> FALSE, files |-> <<>>]
       IN  drv' = IF left.raised \/ right.raised
                  THEN [drv EXCEPT !.pc = "returned", !.rc = 1, !.stage = "resolving_files"]
                  ELSE [drv EXCEPT !.pc = "build", !.stage = "resolving_files",
                                   !.left_files = left.files, !.right_files = right.files]
    /\ UNCHANGED <<pages, nextRev, drawFrame>>

\* the list page_updates is built: "saving_pages", or an exception
DrawBuild ==
    /\ drv.pc = "build"
    /\ LET content == content_updates(drv.mode, drv.left_files, drv.right_files, "Draw",
                                      drv.end_datetime_text, drv.element_start)
       IN  drv' = IF content.raised THEN [drv EXCEPT !.pc = "returned", !.rc = 1]
                  ELSE [drv EXCEPT !.pc = "save", !.stage = "saving_pages",
                                   !.updates = page_updates(content.updates, drv.mode,
                                                            drv.end_datetime_text)]
    /\ UNCHANGED <<pages, nextRev, drawFrame>>

\* one round of "for page_title, page_text in page_updates": the save, or
\* the exception it raises
DrawSave ==
    /\ drv.pc = "save"
    /\ Len(drv.saved) < Len(drv.updates)
    /\ LET k == Len(drv.saved) + 1
       IN  IF drv.fail = k
           THEN /\ drv' = [drv EXCEPT !.pc = "returned", !.rc = 1]
                /\ UNCHANGED <<pages, nextRev>>
           ELSE /\ pages' = [pages EXCEPT ![drv.updates[k][1]] =
                                [exists |-> TRUE, text |-> drv.updates[k][2], rev |-> nextRev,
                                 body |-> ""]]
                /\ nextRev' = nextRev + 1
                /\ drv' = [drv EXCEPT !.saved = Append(@, drv.updates[k][1])]
    /\ UNCHANGED drawFrame

\* every page is saved: "completed", return 0
DrawComplete ==
    /\ drv.pc = "save"
    /\ Len(drv.saved) = Len(drv.updates)
    /\ drv' = [drv EXCEPT !.pc = "returned", !.rc = 0, !.stage = "completed"]
    /\ UNCHANGED <<pages, nextRev, drawFrame>>

NextDraw == DrawResolve \/ DrawBuild \/ DrawSave \/ DrawComplete

SpecDraw == InitDraw /\ [][NextDraw]_vars

\* the content pages a mode shows
ContentPages(mode) ==
    CASE mode = "single" -> {DRAW_PAGE_SINGLE}
      [] mode = "double" -> {DRAW_PAGE_DOUBLE_LEFT, DRAW_PAGE_DOUBLE_RIGHT}
      [] mode \in {"element-single", "element-double"} ->
           {DRAW_PAGE_ELEMENT_BANNERS, DRAW_PAGE_ELEMENT_ICONS}
      [] OTHER -> {}

SavedBefore(k) == {drv.saved[j] : j \in 1..(k - 1)}

\* C33: the content pages are saved first, then the EndDate page, then the
\* PromoMode page, last; when resolving the banner files or an earlier save
\* failed the PromoMode page is not saved, and the mode is switched only
\* when every content page of the mode holds the new content
C33_SaveOrder ==
    drv.pc \in {"draw", "build", "save", "returned"} =>
        /\ \A k \in 1..Len(drv.saved) :
               /\ drv.saved[k] = DRAW_PAGE_END_DATE =>
                      SavedBefore(k) = ContentPages(drv.mode) /\ ContentPages(drv.mode) # {}
               /\ drv.saved[k] = DRAW_PAGE_PROMO_MODE =>
                      /\ k = Len(drv.saved)
                      /\ SavedBefore(k) = ContentPages(drv.mode) \cup {DRAW_PAGE_END_DATE}
                      /\ drv.saved[k - 1] = DRAW_PAGE_END_DATE
               /\ drv.saved[k] \in ContentPages(drv.mode) => SavedBefore(k) \subseteq ContentPages(drv.mode)
        /\ drv.rc = 1 =>
               /\ \A k \in 1..Len(drv.saved) : drv.saved[k] # DRAW_PAGE_PROMO_MODE
               /\ pages[DRAW_PAGE_PROMO_MODE].text = OldText
        /\ pages[DRAW_PAGE_PROMO_MODE].text # OldText =>
               /\ pages[DRAW_PAGE_PROMO_MODE].text = promo_mode_value(drv.mode)
               /\ pages[DRAW_PAGE_END_DATE].text = drv.end_datetime_text
               /\ \A c \in ContentPages(drv.mode) : pages[c].text # OldText

\* the save of the PromoMode page failed after the content and the end date
C33_Witness ==
    /\ drv.pc = "returned"
    /\ drv.mode = "double"
    /\ drv.rc = 1
    /\ drv.saved = <<DRAW_PAGE_DOUBLE_LEFT, DRAW_PAGE_DOUBLE_RIGHT, DRAW_PAGE_END_DATE>>
    /\ pages[DRAW_PAGE_PROMO_MODE].text = OldText
    /\ pages[DRAW_PAGE_DOUBLE_RIGHT].text # OldText

-----------------------------------------------------------------------------
(* get_images_concurrent (SpecGather): the coroutines of one batch run     *)
(* interleaved, one request of one coroutine per step.                     *)

\* the batch: the first three tasks derived from the summon page
GatherTasks == SubSeq(summon_tasks(SummonPage), 1, 3)

\* "urls = [task['url'] for task in download_tasks]"
UrlsOf(tasks) == [i \in 1..Len(tasks) |-> tasks[i].url]

\* what the CDN answers for the i-th URL of the batch
GatherScripts(i) ==
    LET body == "PNG-" \o str(i)
    IN  {Ok(body), <<Unavailable, [status |-> 200, body |-> body]>>, <<Unavailable>>, NotFound}

\* a coroutine download_single(session, url) before its first request
Coroutine(url) == [url |-> url, attempt |-> 0, done |-> FALSE, success |-> FALSE,
                   sha1 |-> "", size |-> 0, io |-> ""]

\* one round of "for attempt in range(max_retries + 1)" of a coroutine
download_single_step(c, script) ==
    LET response == Answer(script, c.attempt + 1)
    IN  IF response.status = 200
        THEN [c EXCEPT !.done = TRUE, !.success = TRUE, !.sha1 = sha1_hexdigest(response.body),
                       !.size = Len(response.body), !.io = response.body]
        ELSE IF (response.status = 0 \/ response.status \in RetryStatuses)
                /\ c.attempt < max_retries
        THEN [c EXCEPT !.attempt = @ + 1]
        ELSE [c EXCEPT !.done = TRUE]

\* "return url, True, sha1_hex, size, io_obj" / "return url, False, "", 0, False"
ResultOf(c) == [url |-> c.url, success |-> c.success, sha1 |-> c.sha1, size |-> c.size, io |-> c.io]

\* results listed in the order in which the coroutines finished
gather_as_completed(co, order) == [k \in 1..Len(order) |-> ResultOf(co[order[k]])]

\* "return await asyncio.gather(*tasks)": the results in the order of the
\* awaitables passed in
gather(co, order) == [i \in 1..Len(co) |-> ResultOf(co[i])]

InitGather ==
    /\ pages = <<>> /\ archive = {} /\ nextRev = FirstRev /\ cache = <<>>
    /\ \E s1 \in GatherScripts(1), s2 \in GatherScripts(2), s3 \in GatherScripts(3) :
          cdn = (GatherTasks[1].url :> s1) @@ (GatherTasks[2].url :> s2)
                @@ (GatherTasks[3].url :> s3)
    /\ last = NoCall /\ prev = NoCall /\ calls = 0
    /\ derive = [pc |-> "off"] /\ cmds = <<>> /\ lockHeld = FALSE /\ last_used = {}
    /\ drv = [pc |-> "off"]
    /\ fetch = [pc |-> "gather", tasks |-> GatherTasks, urls |-> UrlsOf(GatherTasks),
                co |-> [i \in 1..Len(GatherTasks) |-> Coroutine(UrlsOf(GatherTasks)[i])],
                order |-> <<>>, results |-> <<>>, pairs |-> <<>>]

\* the event loop runs one coroutine up to its next await
GatherStep ==
    /\ fetch.pc = "gather"
    /\ \E i \in 1..Len(fetch.co) :
          /\ ~fetch.co[i].done
          /\ LET c == download_single_step(fetch.co[i], ScriptOf(cdn, fetch.urls[i]))
             IN  fetch' = [fetch EXCEPT !.co[i] = c,
                                        !.order = IF c.done THEN Append(@, i) ELSE @]
    /\ UNCHANGED <<wikiVars, derive, lockVars, drv>>

\* every coroutine has returned: get_images_concurrent returns
GatherReturn ==
    /\ fetch.pc = "gather"
    /\ \A i \in 1..Len(fetch.co) : fetch.co[i].done
    /\ fetch' = [fetch EXCEPT !.pc = "gathered", !.results = gather(fetch.co, fetch.order)]
    /\ UNCHANGED <<wikiVars, derive, lockVars, drv>>

\* "for i, (url, success, sha1, size, io_obj) in enumerate(download_results)":
\* "task = download_tasks[i]" and the arguments of its check_image call
GatherPair ==
    /\ fetch.pc = "gathered"
    /\ fetch' = [fetch EXCEPT
                   !.pc = "paired",
                   !.pairs = [i \in 1..Len(fetch.results) |->
                                 [success |-> fetch.results[i].success,
                                  true_name |-> fetch.tasks[i].true_name,
                                  other_names |-> fetch.tasks[i].other_names,
                                  sha1 |-> fetch.results[i].sha1,
                                  io |-> fetch.results[i].io]]]
    /\ UNCHANGED <<wikiVars, derive, lockVars, drv>>

NextGather == GatherStep \/ GatherReturn \/ GatherPair

SpecGather == InitGather /\ [][NextGather]_vars

\* the task whose URL is url
TaskAt(url) == CHOOSE task \in {GatherTasks[i] : i \in 1..Len(GatherTasks)} : task.url = url

\* C34: the i-th result of get_images_concurrent is the result for the i-th
\* URL, in whatever order the downloads finish or are retried, and the driver
\* pairs each downloaded body with the name and the aliases of its own task
C34_ResultsAligned ==
    fetch.pc \in {"gathered", "paired"} =>
        /\ Len(fetch.results) = Len(fetch.urls)
        /\ \A i \in 1..Len(fetch.results) :
               /\ fetch.results[i].url = fetch.urls[i]
               /\ fetch.results[i].success = download_single(ScriptOf(cdn, fetch.urls[i])).success
               /\ fetch.results[i].io = download_single(ScriptOf(cdn, fetch.urls[i])).io
               /\ fetch.results[i].sha1 = download_single(ScriptOf(cdn, fetch.urls[i])).sha1
        /\ fetch.pc = "paired" =>
               \A i \in 1..Len(fetch.pairs) :
                   fetch.pairs[i].success =>
                       \E url \in DOMAIN cdn :
                           /\ \E k \in 1..Len(cdn[url]) :
                                  cdn[url][k] = [status |-> 200, body |-> fetch.pairs[i].io]
                           /\ fetch.pairs[i].true_name = TaskAt(url).true_name
                           /\ fetch.pairs[i].other_names = TaskAt(url).other_names

\* the first URL was retried and finished last, the third finished first
C34_Witness ==
    /\ fetch.pc = "paired"
    /\ fetch.order = <<3, 2, 1>>
    /\ fetch.co[1].attempt = 1
    /\ \A i \in 1..3 : fetch.pairs[i].success
    /\ fetch.pairs[1].io = "PNG-1" /\ fetch.pairs[3].io = "PNG-3"
    /\ fetch.pairs[1].true_name = GatherTasks[1].true_name

\* C35: a check_image call that returns False has performed no file move,
\* no upload and no page save, and leaves the wiki as it found it
C35_SkippedUnchanged ==
    (calls >= 1 /\ last.op = "check_image" /\ ~last.raised /\ last.ret = RetFalse) =>
        /\ DoneWrites(last.log) = <<>>
        /\ pages = last.pre

-----------------------------------------------------------------------------
(* SpecPass: check_sp_asset run twice on one page, each pass one step.     *)

\* a page carrying two asset ids
TwoIdPage == [name |-> "Bahamut",
              templates |-> <<Template("Summon", <<Param("id", "1010200301")>>),
                              Template("Summon", <<Param("id", "1010200302")>>)>>]

Url3 == AssetsUrl \o "img/sp/assets/summon/b/1010200302.png"

PassCdns == {Url1 :> Ok(B1),
             (Url1 :> Ok(B1)) @@ (Url2 :> Ok(B2)),
             (Url1 :> Ok(B1)) @@ (Url3 :> Ok(B3)),
             (Url1 :> Ok(B1)) @@ (Url3 :> Ok(B1)),
             (Url1 :> Ok(B1)) @@ (LowUrl :> Ok(B1))}

\* the tasks of a batch whose download succeeds on the CDN cd, in order
Downloaded(tasks, cd) ==
    LET Succeeds(task) == download_single(ScriptOf(cd, task.url)).success
    IN  SelectSeq(tasks, Succeeds)

RECURSIVE process_results(_, _)
\* the loop over download_results: the iterations of the downloaded images,
\* up to the first exception
process_results(w, tasks) ==
    IF tasks = <<>> THEN w
    ELSE process_results(
             process_task(w, Head(tasks), download_single(ScriptOf(cdn, Head(tasks).url))),
             Tail(tasks))

InitPass ==
    /\ \E dup \in DriverDups, other \in OtherPlacements, len \in 0..1 :
          pages = InitialPages(dup, other, len, N301)
    /\ archive = {} /\ nextRev = FirstRev /\ cache = <<>>
    /\ cdn \in PassCdns
    /\ last = NoCall /\ prev = NoCall /\ calls = 0
    /\ fetch = [pc |-> "off"] /\ derive = [pc |-> "off"]
    /\ cmds = <<>> /\ lockHeld = FALSE /\ last_used = {}
    /\ \E page \in {SummonPage, TwoIdPage} :
          drv = [pc |-> "pass", page |-> page, tasks |-> Downloaded(summon_tasks(page), cdn),
                 passes |-> 0, first |-> <<>>, trace |-> <<>>]

\* the wiki after the pass that leaves the world w, and the record of the pass
Passed(w) ==
    /\ pages' = w.pages
    /\ archive' = w.archive
    /\ nextRev' = w.nextRev
    /\ cache' = w.cache
    /\ cdn' = w.cdn
    /\ last' = CallRec("check_sp_asset", drv.page.name, "", <<>>, "", w)
    /\ prev' = last
    /\ drv' = [drv EXCEPT !.passes = @ + 1, !.first = drv.trace, !.trace = w.trace]
    /\ UNCHANGED <<calls, fetch, derive, lockVars>>

\* check_sp_asset on the page
FirstPass ==
    /\ drv.pc = "pass"
    /\ drv.passes = 0
    /\ Passed(process_results(Now(NoFault), drv.tasks))

\* check_sp_asset on the same page again, the CDN and the wiki being as
\* the first pass left them
SecondPass ==
    /\ drv.pc = "pass"
    /\ drv.passes = 1
    /\ ~last.raised
    /\ Passed(process_results(Now(NoFault), drv.tasks))

NextPass == FirstPass \/ SecondPass

SpecPass == InitPass /\ [][NextPass]_vars

\* the final names of the tasks of a pass, in the order of the tasks: the
\* name handed to check_image_categories
FinalNames(trace) ==
    LET IsFinal(e) == e.op = "check_image_categories"
    IN  SelectSeq(trace, IsFinal)

\* C36: the second of two passes over one page saves, moves and uploads
\* nothing, and no alias is attached to two tasks of a pass that end under
\* different final names
C36_SecondPassNoOp ==
    (drv.pc = "pass" /\ drv.passes = 2 /\ ~last.raised) =>
        /\ Writes(last.log) = <<>>
        /\ Len(FinalNames(drv.trace)) = Len(drv.tasks) =>
               \A i, j \in 1..Len(drv.tasks) :
                   FinalNames(drv.trace)[i].a # FinalNames(drv.trace)[j].a =>
                       \A x \in 1..Len(drv.tasks[i].other_names) :
                           \A y \in 1..Len(drv.tasks[j].other_names) :
                               drv.tasks[i].other_names[x] # drv.tasks[j].other_names[y]

\* the tasks of the pass for which check_image answered ret
Answered(ret) == {j \in drv.tried : drv.rets[j] = ret}

\* the check_image calls of task j in the pass
ResolvesOf(j) == {k \in 1..Len(drv.trace) : drv.trace[k].j = j /\ drv.trace[k].op = "check_image"}

\* C37: at the end of every iteration of the processing loop and in the
\* "completed" report, processed = uploaded + duplicates + failed, failed
\* counts the tasks check_image returned False for, every downloaded task
\* is counted once and no task is resolved twice
C37_CounterConservation ==
    (MainLoop /\ (drv.pc = "process" \/ (drv.pc = "returned" /\ drv.return_code = 0))) =>
        /\ drv.images_processed = drv.images_uploaded + drv.images_duplicate + drv.images_failed
        /\ drv.images_failed = Cardinality(Answered(RetFalse))
        /\ drv.images_uploaded = Cardinality(Answered(RetTrue))
        /\ drv.images_processed = Cardinality(drv.tried)
        /\ \A j \in drv.tried : drv.results[j].success /\ Cardinality(ResolvesOf(j)) = 1
        /\ \A j \in (1..Len(drv.tasks)) \ drv.tried : ResolvesOf(j) = {}
        /\ drv.pc = "returned" =>
               /\ drv.tried = {j \in 1..Len(drv.results) : drv.results[j].success}
               /\ drv.reports[Len(drv.reports)].stage = "completed"
               /\ drv.reports[Len(drv.reports)].processed =
                      drv.reports[Len(drv.reports)].uploaded
                      + drv.reports[Len(drv.reports)].duplicates + drv.images_failed

\* a pass over two downloaded images: one refused by check_image, one uploaded
C37_Witness ==
    /\ MainLoop
    /\ drv.pc = "returned"
    /\ drv.return_code = 0
    /\ drv.images_processed = 2
    /\ drv.images_failed = 1
    /\ drv.images_uploaded = 1
    /\ drv.rets[1] = RetFalse

-----------------------------------------------------------------------------
(* upload_status_icons and upload_gacha_banners (SpecIcons): one index of  *)
(* the loop per step.                                                      *)

StatusUrl(identifier) ==
    "https://prd-game-a-granbluefantasy.akamaized.net/assets_en/img/sp/ui/icon/status/x64/"
        \o identifier \o ".png"

BannerUrl(file_name) ==
    "https://prd-game-a-granbluefantasy.akamaized.net/assets_en/img/sp/banner/gacha/" \o file_name

\* "max_index = 10" of a ranged status upload without a maximum
DefaultStatusMax == 10
\* "max_index=12" of upload_gacha_banners
DefaultBannerMax == 12

ensure_status_prefix(raw_value) ==
    IF startswith(raw_value, "status_") THEN raw_value ELSE "status_" \o raw_value

\* status_identifier.endswith('#')
IsRanged(status_identifier) == endswith(status_identifier, "#")

\* base_identifier of upload_status_icons
base_identifier(status_identifier) ==
    LET cut == SubSeq(status_identifier, 1, Len(status_identifier) - 1)
    IN  ensure_status_prefix(
            IF ~IsRanged(status_identifier) THEN status_identifier
            ELSE IF endswith(cut, "_") THEN SubSeq(cut, 1, Len(cut) - 1)
            ELSE cut)

\* the value a handler returns with
Returning(w, ret) == IF w.raised THEN w ELSE [w EXCEPT !.ret = ret]

\* status_download_and_upload after check_image: (False, None), or the
\* double redirects of the final name and (True, true_name)
status_upload_finish(w, true_name) ==
    IF w.raised \/ w.ret = RetFalse THEN w
    ELSE Returning(check_file_double_redirect(w, final_name(w, [true_name |-> true_name])),
                   RetName(final_name(w, [true_name |-> true_name])))

\* status_download_and_upload after get_image
status_upload(w, identifier) ==
    IF w.raised THEN w
    ELSE IF ~w.val.success THEN Returning(w, RetFalse)
    ELSE status_upload_finish(
             check_image(w, identifier \o ".png", w.val.sha1, w.val.size, w.val.io, <<>>),
             identifier \o ".png")

\* status_download_and_upload(identifier): RetFalse for (False, None),
\* the final name for (True, true_name)
status_download_and_upload(w, identifier) ==
    status_upload(get_image(w, StatusUrl(identifier)), identifier)

\* the secondary identifier, tried when the primary one failed
status_secondary(w, identifier) ==
    IF w.raised \/ w.ret # RetFalse THEN w ELSE status_download_and_upload(w, identifier)

\* one round of "for index in indices"; index 0 stands for None
status_index(w, base, index) ==
    IF index = 0 THEN status_download_and_upload(w, base)
    ELSE status_secondary(status_download_and_upload(w, base \o "_" \o str(index)),
                          base \o str(index))

\* one round of "for index in range(1, max_index + 1)" of upload_gacha_banners
banner_index(w, file_name) == status_upload(get_image(w, BannerUrl(file_name)), SubSeq(file_name, 1, Len(file_name) - 4))

\* the keyword arguments of an emit_status call
StatusEvent(stage, d) ==
    [stage |-> stage, processed |-> d.processed, uploaded |-> d.uploaded,
     failed |-> d.failed, total |-> d.total]

\* an index counted as processed only
count_index_without_failures(d, success) ==
    [d EXCEPT !.processed = @ + 1, !.uploaded = IF success THEN @ + 1 ELSE @]

\* "processed += 1; if success: uploaded += 1; else: failed += 1"
count_index(d, success) ==
    [d EXCEPT !.processed = @ + 1,
              !.uploaded = IF success THEN @ + 1 ELSE @,
              !.failed = IF success THEN @ ELSE @ + 1]

\* the images the CDN serves
IconCdns ==
    {<<>>,
     (StatusUrl("status_1438") :> Ok(B1)) @@ (BannerUrl("banner_X_1.png") :> Ok(B1)),
     (StatusUrl("status_1438_1") :> Ok(B1)) @@ (StatusUrl("status_14382") :> Ok(B2))
         @@ (BannerUrl("banner_X_1.png") :> Ok(B1)) @@ (BannerUrl("banner_X_2.png") :> Ok(B2)),
     (StatusUrl("status_1438_1") :> Ok(B2)) @@ (StatusUrl("status_14381") :> Ok(B1))
         @@ (StatusUrl("status_1438_2") :> Ok(B2)) @@ (BannerUrl("banner_X_2.png") :> Ok(B3))}

\* the wikis: empty, or holding two copies of B1
IconWikis == {<<>>, InitialPages({N301, Old}, "", 0, N301)}

\* max_index as given: NoCount for None
MaxIndexChoices == {NoCount, 0, 1, 2}

\* the rounds one of which meets a write that raises
MaxFaultRound == 2

InitIcons ==
    /\ pages \in IconWikis
    /\ archive = {} /\ nextRev = FirstRev /\ cache = <<>>
    /\ cdn \in IconCdns
    /\ last = NoCall /\ prev = NoCall /\ calls = 0
    /\ fetch = [pc |-> "off"] /\ derive = [pc |-> "off"]
    /\ cmds = <<>> /\ lockHeld = FALSE /\ last_used = {}
    /\ \E fn \in {"upload_status_icons", "upload_gacha_banners"},
          identifier \in {"", "1438", "status_1438", "1438_#", "1438#", "X"},
          max_index \in MaxIndexChoices, fault_at \in 0..MaxFaultRound :
          /\ fn = "upload_gacha_banners" <=> identifier \in {"", "X"}
          /\ drv = [pc |-> "call", fn |-> fn, identifier |-> identifier, max_index |-> max_index,
                    fault_at |-> fault_at, base |-> "", indices |-> <<>>, k |-> 0,
                    processed |-> 0, uploaded |-> 0, failed |-> 0, total |-> 0,
                    events |-> <<>>, rounds |-> <<>>]

iconFrame == <<last, prev, calls, fetch, derive, lockVars>>

\* upload_status_icons up to its loop: the early returns, the indices and
\* the first "processing" event
CallUploadStatusIcons ==
    /\ drv.pc = "call"
    /\ drv.fn = "upload_status_icons"
    /\ LET ranged == IsRanged(drv.identifier)
           max_index == IF drv.max_index = NoCount THEN DefaultStatusMax ELSE drv.max_index
           started == [drv EXCEPT !.pc = "loop",
                                  !.base = base_identifier(drv.identifier),
                                  !.indices = IF ranged THEN [i \in 1..max_index |-> i] ELSE <<0>>,
                                  !.total = IF ranged THEN max_index ELSE 1]
       IN  drv' = IF drv.identifier = "" \/ (ranged /\ max_index < 1)
                  THEN [drv EXCEPT !.pc = "returned"]
                  ELSE [started EXCEPT !.events = <<StatusEvent("processing", started)>>]
    /\ UNCHANGED <<wikiVars, iconFrame>>

\* upload_gacha_banners up to its loop
CallUploadGachaBanners ==
    /\ drv.pc = "call"
    /\ drv.fn = "upload_gacha_banners"
    /\ LET max_index == IF drv.max_index = NoCount THEN DefaultBannerMax ELSE drv.max_index
           started == [drv EXCEPT !.pc = "loop", !.base = drv.identifier,
                                  !.indices = [i \in 1..max_index |-> i],
                                  !.total = max_index]
       IN  drv' = IF drv.identifier = "" \/ max_index < 1
                  THEN [drv EXCEPT !.pc = "returned"]
                  ELSE [started EXCEPT !.events = <<StatusEvent("processing", started)>>]
    /\ UNCHANGED <<wikiVars, iconFrame>>

\* the writes done in a round before a download of the round
WritesBeforeFetch(log) ==
    {k \in 1..Len(log) : IsDoneWrite(log[k]) /\ \E f \in At(log, "fetch") : f > k}

\* the end of a round that left the world w: the counters and the
\* "processing" event, or the exception that leaves the handler
EndRound(w, counted) ==
    /\ pages' = w.pages
    /\ archive' = w.archive
    /\ nextRev' = w.nextRev
    /\ cache' = w.cache
    /\ cdn' = w.cdn
    /\ drv' = IF w.raised
              THEN [drv EXCEPT !.pc = "raised", !.k = @ + 1]
              ELSE [counted EXCEPT
                      !.k = @ + 1,
                      !.events = Append(@, StatusEvent("processing", counted)),
                      !.rounds = Append(@, [index |-> drv.indices[drv.k + 1],
                                            success |-> w.ret # RetFalse,
                                            fetched |-> [i \in 1..Len(Fetches(w.log)) |->
                                                            [url |-> Fetches(w.log)[i].a,
                                                             ok |-> Fetches(w.log)[i].ok]],
                                            early |-> Cardinality(WritesBeforeFetch(w.log))])]
    /\ UNCHANGED iconFrame

\* the world of round k: its first write raises when the fault is due
RoundWorld == Now(IF drv.fault_at = drv.k + 1 THEN WriteFault(1, max_attempts + 1) ELSE NoFault)

Finish(w) == EndRound(w, count_index(drv, w.ret # RetFalse))

\* one round of the loop of upload_status_icons
StatusRound ==
    /\ drv.pc = "loop"
    /\ drv.fn = "upload_status_icons"
    /\ drv.k < Len(drv.indices)
    /\ Finish(status_index(RoundWorld, drv.base, drv.indices[drv.k + 1]))

\* one round of the loop of upload_gacha_banners
BannerRound ==
    /\ drv.pc = "loop"
    /\ drv.fn = "upload_gacha_banners"
    /\ drv.k < Len(drv.indices)
    /\ Finish(banner_index(RoundWorld, banner_file(drv.base, drv.indices[drv.k + 1])))

\* the loop is over: the "completed" event
IconsCompleted ==
    /\ drv.pc = "loop"
    /\ drv.k = Len(drv.indices)
    /\ drv' = [drv EXCEPT !.pc = "returned", !.events = Append(@, StatusEvent("completed", drv))]
    /\ UNCHANGED <<wikiVars, iconFrame>>

NextIcons ==
    \/ CallUploadStatusIcons
    \/ CallUploadGachaBanners
    \/ StatusRound
    \/ BannerRound
    \/ IconsCompleted

SpecIcons == InitIcons /\ [][NextIcons]_vars

\* C38: at every progress event of upload_status_icons and
\* upload_gacha_banners processed = uploaded + failed and processed <= total;
\* each index is counted once, the secondary identifier being fetched only
\* after the primary one failed, within the same round; the "completed"
\* event has processed = total
C38_IconCounters ==
    drv.pc \in {"call", "loop", "returned", "raised"} =>
        /\ \A e \in 1..Len(drv.events) :
               /\ drv.events[e].processed = drv.events[e].uploaded + drv.events[e].failed
               /\ drv.events[e].processed <= drv.events[e].total
               /\ drv.events[e].stage = "processing" => drv.events[e].processed = e - 1
               /\ drv.events[e].stage = "completed" =>
                      /\ e = Len(drv.events)
                      /\ drv.events[e].processed = drv.events[e].total
                      /\ drv.events[e].total = Len(drv.rounds)
        /\ \A r \in 1..Len(drv.rounds) :
               /\ drv.rounds[r].index = drv.indices[r]
               /\ Len(drv.rounds[r].fetched) \in {1, 2}
               /\ Len(drv.rounds[r].fetched) = 2 =>
                      /\ drv.fn = "upload_status_icons"
                      /\ drv.rounds[r].index # 0
                      /\ drv.rounds[r].fetched[1].url =
                             StatusUrl(drv.base \o "_" \o str(drv.rounds[r].index))
                      /\ drv.rounds[r].fetched[2].url =
                             StatusUrl(drv.base \o str(drv.rounds[r].index))
                      /\ drv.rounds[r].early = 0
               /\ drv.rounds[r].success => drv.rounds[r].fetched[Len(drv.rounds[r].fetched)].ok
        /\ drv.uploaded = Cardinality({r \in 1..Len(drv.rounds) : drv.rounds[r].success})

\* a ranged status upload of two indices: the first found under its
\* secondary name after the primary was missing, the second under its
\* primary name
C38_Witness ==
    /\ drv.pc = "returned"
    /\ drv.fn = "upload_status_icons"
    /\ Len(drv.events) = 4
    /\ drv.events[4] = [stage |-> "completed", processed |-> 2, uploaded |-> 2, failed |-> 0,
                        total |-> 2]
    /\ Len(drv.rounds[1].fetched) = 2
    /\ Len(drv.rounds[2].fetched) = 1

-----------------------------------------------------------------------------
(* check_class (SpecClass): the sprite images, the leader icon, the square *)
(* images and the shared square image of a class page, one attempt per     *)
(* step.                                                                   *)

LeaderUrl == "https://prd-game-a-granbluefantasy.akamaized.net/assets_en/img/sp/assets/leader/"

\* class_data of {{Class|id=100001_sw|class=Fighter|family=Fighter|row=0|id_lvl50=100002_sw}}
ClassData == [id |-> "100001_sw", id_num |-> "100001", abbr |-> "sw", name |-> "Fighter",
              id_lvl50 |-> "100002_sw", id_lvl50_num |-> "100002", id_lvl50_abbr |-> "sw"]

\* genders = (0, 1) and GENDER_LABELS
genders == <<0, 1>>
GENDER_LABELS == <<"gran", "djeeta">>

\* build_variants(label, include_lvl50)
build_variants(include_lvl50) ==
    <<[id |-> ClassData.id, id_num |-> ClassData.id_num, abbr |-> ClassData.abbr,
       is_lvl50 |-> FALSE]>>
    \o (IF include_lvl50
        THEN <<[id |-> ClassData.id_lvl50, id_num |-> ClassData.id_lvl50_num,
                abbr |-> ClassData.id_lvl50_abbr, is_lvl50 |-> TRUE]>>
        ELSE <<>>)

\* an attempt of the plan: adjust is adjust_attempts_for_failures, opens and
\* closes mark the first and the last gender of a variant
Attempt(url, canonical_name, other_names, extra, adjust, opens, closes) ==
    [url |-> url, true_name |-> canonical_name, other_names |-> other_names,
     categories |-> <<"Class Images">> \o extra, adjust |-> adjust, opens |-> opens,
     closes |-> closes]

\* get_gender_categories(alias)
get_gender_categories(alias) ==
    IF alias = "gran" THEN <<"Gran Class Images">>
    ELSE IF alias = "djeeta" THEN <<"Djeeta Class Images">>
    ELSE <<>>

\* the attempts of the class sprites: process_gendered_assets without adjustment
SpriteAttempts ==
    [g \in 1..Len(genders) |->
        Attempt(LeaderUrl \o "sd/" \o ClassData.id \o "_" \o ClassData.abbr \o "_"
                    \o str(genders[g]) \o "_01.png",
                "leader_sd_" \o ClassData.id_num \o "_" \o ClassData.abbr \o "_"
                    \o str(genders[g]) \o "_01.png",
                <<"leader_sd_" \o ClassData.id_num \o "_" \o str(genders[g]) \o "_01.png">>,
                get_gender_categories(GENDER_LABELS[g]), FALSE, g = 1, g = Len(genders))]

\* the leader icon: process_single_asset
IconAttempt ==
    Attempt(LeaderUrl \o "m/" \o ClassData.id_num \o "_01.jpg",
            "leader_m_" \o ClassData.id_num \o "_01.jpg",
            <<ClassData.name \o " icon.jpg">>, <<>>, FALSE, TRUE, TRUE)

\* the square images of a variant: process_gendered_assets with
\* adjust_attempts_for_failures=True
SquareAttempts(variant) ==
    [g \in 1..Len(genders) |->
        Attempt(LeaderUrl \o "s/" \o variant.id \o "_" \o str(genders[g]) \o "_01.jpg",
                "leader_s_" \o variant.id_num \o "_" \o variant.abbr \o "_" \o str(genders[g])
                    \o "_01.jpg",
                <<"leader_s_" \o variant.id_num \o "_" \o str(genders[g]) \o "_01.jpg",
                  ClassData.name \o "_" \o GENDER_LABELS[g]
                      \o (IF variant.is_lvl50 THEN "_square_lvl50.jpg" ELSE "_square.jpg")>>,
                get_gender_categories(GENDER_LABELS[g]), TRUE, g = 1, g = Len(genders))]

\* 'leader square (both)': process_single_asset
SharedSquareAttempt ==
    Attempt(LeaderUrl \o "s/" \o ClassData.id_num \o "_01.jpg",
            "leader_s_" \o ClassData.id_num \o "_01.jpg",
            <<ClassData.name \o " square.jpg">>, <<>>, FALSE, TRUE, TRUE)

RECURSIVE VariantAttempts(_)
VariantAttempts(variants) ==
    IF variants = <<>> THEN <<>>
    ELSE SquareAttempts(Head(variants)) \o VariantAttempts(Tail(variants))

\* the attempts of the pass, in the order of the calls
ClassPlan(supports_lvl50_assets) ==
    SpriteAttempts \o <<IconAttempt>> \o VariantAttempts(build_variants(supports_lvl50_assets))
        \o <<SharedSquareAttempt>>

\* process_asset after get_image: False, or the iteration of the image
process_asset_downloaded(w, task) ==
    IF w.raised THEN w
    ELSE IF ~w.val.success THEN Returning(w, RetFalse)
    ELSE process_task(w, task, w.val)

\* process_asset(label_text, url, canonical_name, other_names, extra_categories)
process_asset(w, task) == process_asset_downloaded(get_image(w, task.url), task)

\* the attempts counted when a variant ends, whatever its downloads did
adjusted_always(uploads_attempted, adjust, variant_success) ==
    IF adjust THEN uploads_attempted - Len(genders) ELSE uploads_attempted

\* "if adjust_attempts_for_failures and not variant_success:
\*      uploads_attempted -= len(genders)"
adjusted(uploads_attempted, adjust, variant_success) ==
    IF adjust /\ ~variant_success THEN uploads_attempted - Len(genders) ELSE uploads_attempted

\* the images of the class the CDN serves: the i-th URL of Served answers
\* with a content of its own
ClassCdn(Served) == [url \in Served |-> Ok("PNG-" \o str(CHOOSE i \in 1..Len(ClassPlan(TRUE)) :
                                                           ClassPlan(TRUE)[i].url = url))]

ClassCdns ==
    {ClassCdn({ClassPlan(TRUE)[i].url : i \in S}) :
        S \in {{}, 1..7, {1, 2, 3, 8}, {1, 2, 6, 7, 8}, {2, 4, 8}, {3, 7}}}

InitClass ==
    /\ pages \in IconWikis
    /\ archive = {} /\ nextRev = FirstRev /\ cache = <<>>
    /\ cdn \in ClassCdns
    /\ last = NoCall /\ prev = NoCall /\ calls = 0
    /\ fetch = [pc |-> "off"] /\ derive = [pc |-> "off"]
    /\ cmds = <<>> /\ lockHeld = FALSE /\ last_used = {}
    /\ \E supports_lvl50_assets \in BOOLEAN, fault_at \in 0..MaxFaultRound :
          drv = [pc |-> "class", plan |-> ClassPlan(supports_lvl50_assets), k |-> 0,
                 fault_at |-> fault_at, uploads_attempted |-> 0, uploads_success |-> 0,
                 uploads_duplicates |-> 0, variant_success |-> FALSE, events |-> <<>>,
                 lowest |-> 0]

\* the end of the attempt that left the world w
EndAttempt(w, task) ==
    LET ok == w.ret # RetFalse
        variant_success == IF task.opens THEN ok ELSE drv.variant_success \/ ok
        uploads_attempted == drv.uploads_attempted + 1
        uploads_success == drv.uploads_success + (IF w.ret = RetTrue THEN 1 ELSE 0)
        uploads_duplicates == drv.uploads_duplicates + (IF w.ret.kind = "name" THEN 1 ELSE 0)
        after == IF task.closes THEN adjusted(uploads_attempted, task.adjust, variant_success)
                 ELSE uploads_attempted
    IN  /\ pages' = w.pages
        /\ archive' = w.archive
        /\ nextRev' = w.nextRev
        /\ cache' = w.cache
        /\ cdn' = w.cdn
        /\ drv' = IF w.raised
                  THEN [drv EXCEPT !.pc = "raised", !.k = @ + 1,
                                   !.uploads_attempted = uploads_attempted]
                  ELSE [drv EXCEPT
                          !.k = @ + 1,
                          !.uploads_attempted = after,
                          !.uploads_success = uploads_success,
                          !.uploads_duplicates = uploads_duplicates,
                          !.variant_success = variant_success,
                          !.lowest = IF after < @ THEN after ELSE @,
                          !.events = IF ok
                                     THEN Append(@, [stage |-> "processing",
                                                     processed |-> uploads_success
                                                                       + uploads_duplicates,
                                                     total |-> uploads_attempted,
                                                     current_image |-> final_name(w, task)])
                                     ELSE @]
        /\ UNCHANGED iconFrame

\* the next process_asset call of check_class
ClassAttempt ==
    /\ drv.pc = "class"
    /\ drv.k < Len(drv.plan)
    /\ EndAttempt(process_asset(RoundWorld, drv.plan[drv.k + 1]), drv.plan[drv.k + 1])

\* the "completed" event of check_class
ClassCompleted ==
    /\ drv.pc = "class"
    /\ drv.k = Len(drv.plan)
    /\ drv' = [drv EXCEPT
                 !.pc = "returned",
                 !.events = Append(@, [stage |-> "completed",
                                       processed |-> drv.uploads_success + drv.uploads_duplicates,
                                       uploaded |-> drv.uploads_success,
                                       duplicates |-> drv.uploads_duplicates,
                                       total_urls |-> drv.uploads_attempted])]
    /\ UNCHANGED <<wikiVars, iconFrame>>

NextClass == ClassAttempt \/ ClassCompleted

SpecClass == InitClass /\ [][NextClass]_vars

\* the attempts a progress event reports
TotalOf(e) == IF e.stage = "completed" THEN e.total_urls ELSE e.total

\* C39: at every progress event of check_class, also after the attempts of
\* a square variant without an image were taken back, processed <= total
\* and total >= 0; the "completed" event has processed = uploaded +
\* duplicates
C39_ClassProgressBound ==
    drv.pc \in {"class", "returned", "raised"} =>
        /\ \A e \in 1..Len(drv.events) :
               /\ drv.events[e].processed <= TotalOf(drv.events[e])
               /\ TotalOf(drv.events[e]) >= 0
               /\ drv.events[e].stage = "processing" => drv.events[e].processed = e
               /\ drv.events[e].stage = "completed" =>
                      /\ e = Len(drv.events)
                      /\ drv.events[e].processed =
                             drv.events[e].uploaded + drv.events[e].duplicates
                      /\ drv.events[e].processed = e - 1
        /\ drv.uploads_success + drv.uploads_duplicates <= drv.uploads_attempted
        /\ drv.lowest >= 0

\* the attempts of the first square variant were taken back, the images of
\* the second were found, and the pass reported its end
C39_Witness ==
    /\ drv.pc = "returned"
    /\ Len(drv.plan) = 8
    /\ drv.events[Len(drv.events)].stage = "completed"
    /\ drv.events[Len(drv.events)].total_urls = 6
    /\ drv.events[Len(drv.events)].processed = 5

====
